---- MODULE Spec2Model ----
(***************************************************************************)
(* Model of the resume-generation request pipeline of ResumeOptimizer.     *)
(*                                                                         *)
(* Two deployment adapters run the same pipeline:                          *)
(*   "vercel"  : src/api/generate.py, handler.do_POST                      *)
(*   "netlify" : src/netlify/functions/generate.py, handler                *)
(*                                                                         *)
(* A Python str is a sequence of characters, each a one-character string   *)
(* (or the name of its code point, "U+0060").  A Python value              *)
(* (a form field, a decoded JSON value) is a tagged record:                *)
(*   [t |-> "str", s |-> chars]      str                                   *)
(*   [t |-> "null"]                  None                                  *)
(*   [t |-> "bool", b |-> b]         True / False                          *)
(*   [t |-> "arr", xs |-> values]    list                                  *)
(*   [t |-> "obj", ps |-> pairs]     dict, pairs [k, v] in insertion order *)
(* The JSON texts of the model use no digits, no '-', no backslash and no  *)
(* upper-case N or I, so numbers, escapes, NaN and Infinity never occur.   *)
(***************************************************************************)
EXTENDS Integers, Sequences, FiniteSets, TLC

VARIABLES
    request,    \* r -> the inbound request and the environment it meets
    pc,         \* r -> the handler's position
    env,        \* r -> the handler's local variables
    log,        \* r -> the pipeline steps taken so far, in order
    hdrbuf,     \* r -> BaseHTTPRequestHandler._headers_buffer (vercel)
    wfile,      \* r -> what has been emitted to the caller, in order
    probe       \* input and result of a pure function under test

vars == <<request, pc, env, log, hdrbuf, wfile, probe>>

(***************************************************************************)
(* Python str operations                                                   *)
(***************************************************************************)

\* str.isspace() for one character
IsSpace(c) == c \in {" ", "\n", "\t", "\r"}

\* s[i:] with a 1-based first index
Drop(s, i) == IF i > Len(s) THEN <<>> ELSE SubSeq(s, i, Len(s))

RECURSIVE LStrip(_)
LStrip(s) ==
    IF s # <<>> /\ IsSpace(Head(s)) THEN LStrip(Tail(s)) ELSE s

RECURSIVE RStrip(_)
RStrip(s) ==
    IF s # <<>> /\ IsSpace(s[Len(s)]) THEN RStrip(SubSeq(s, 1, Len(s) - 1)) ELSE s

\* str.strip()
Strip(s) == RStrip(LStrip(s))

\* s.startswith(p), taken at 1-based position i
MatchAt(s, p, i) ==
    /\ i >= 1
    /\ i + Len(p) - 1 <= Len(s)
    /\ \A k \in 1..Len(p) : s[i + k - 1] = p[k]

StartsWith(s, p) == MatchAt(s, p, 1)

\* s.find(p) from position i on: the least position of a match, 0 if none
RECURSIVE FindFrom(_, _, _)
FindFrom(s, p, i) ==
    IF i + Len(p) - 1 > Len(s) THEN 0
    ELSE IF MatchAt(s, p, i) THEN i
    ELSE FindFrom(s, p, i + 1)

\* s.split(sep): the pieces between the non-overlapping matches, left to right
RECURSIVE Split(_, _)
Split(s, sep) ==
    LET j == FindFrom(s, sep, 1) IN
    IF j = 0 THEN <<s>>
    ELSE <<SubSeq(s, 1, j - 1)>> \o Split(Drop(s, j + Len(sep)), sep)

\* the character U+0060 (grave accent), which a TLA+ string cannot hold
Backtick == "U+0060"

Fence == <<Backtick, Backtick, Backtick>>
JsonTag == <<"j", "s", "o", "n">>

(***************************************************************************)
(* Python values                                                           *)
(***************************************************************************)

JStr(s) == [t |-> "str", s |-> s]
JNull == [t |-> "null"]
JBool(b) == [t |-> "bool", b |-> b]
JArr(xs) == [t |-> "arr", xs |-> xs]
JObj(ps) == [t |-> "obj", ps |-> ps]

IsStr(v) == v.t = "str"
IsObj(v) == v.t = "obj"
IsArr(v) == v.t = "arr"

\* bool(v): what "if v" and "if not v" test
Truthy(v) ==
    CASE v.t = "str" -> v.s # <<>>
      [] v.t = "arr" -> v.xs # <<>>
      [] v.t = "obj" -> v.ps # <<>>
      [] v.t = "bool" -> v.b
      [] OTHER -> FALSE

\* d[k] = v on a dict held as pairs: a repeated key keeps its place
DictSet(ps, k, v) ==
    IF \E i \in 1..Len(ps) : ps[i].k = k
    THEN [i \in 1..Len(ps) |-> IF ps[i].k = k THEN [k |-> k, v |-> v] ELSE ps[i]]
    ELSE Append(ps, [k |-> k, v |-> v])

HasKey(d, k) == \E i \in 1..Len(d.ps) : d.ps[i].k = k

\* d.get(k, default) for a dict d
DictGet(d, k, default) ==
    IF HasKey(d, k)
    THEN d.ps[CHOOSE i \in 1..Len(d.ps) : d.ps[i].k = k].v
    ELSE default

(***************************************************************************)
(* json.loads on the JSON grammar of the model: objects, arrays, strings   *)
(* without escapes, true, false, null.  A result is                        *)
(* [ok, v, i]: ok = FALSE is JSONDecodeError, i the position after v.      *)
(***************************************************************************)

JErr == [ok |-> FALSE, v |-> JNull, i |-> 0]
JOk(v, i) == [ok |-> TRUE, v |-> v, i |-> i]

\* the position of the first non-whitespace character at or after i
RECURSIVE SkipWS(_, _)
SkipWS(s, i) ==
    IF i <= Len(s) /\ IsSpace(s[i]) THEN SkipWS(s, i + 1) ELSE i

\* a string body from position i (after the opening quote) to its closing
\* quote; a control character inside a string is an error (strict mode)
RECURSIVE ScanString(_, _, _)
ScanString(s, i, acc) ==
    IF i > Len(s) THEN JErr
    ELSE IF s[i] = "\"" THEN JOk(JStr(acc), i + 1)
    ELSE IF s[i] \in {"\n", "\t", "\r"} THEN JErr
    ELSE ScanString(s, i + 1, Append(acc, s[i]))

RECURSIVE ParseValue(_, _)
RECURSIVE ParseMembers(_, _, _)
RECURSIVE ParseItems(_, _, _)

\* the members of an object from position i, which holds the quote of a key
ParseMembers(s, i, acc) ==
    IF i > Len(s) \/ s[i] # "\"" THEN JErr
    ELSE
      LET key == ScanString(s, i + 1, <<>>) IN
      IF ~key.ok THEN JErr
      ELSE
        LET c == SkipWS(s, key.i) IN
        IF c > Len(s) \/ s[c] # ":" THEN JErr
        ELSE
          LET val == ParseValue(s, SkipWS(s, c + 1)) IN
          IF ~val.ok THEN JErr
          ELSE
            LET e == SkipWS(s, val.i)
                ps == DictSet(acc, key.v.s, val.v)
            IN
            IF e > Len(s) THEN JErr
            ELSE IF s[e] = "}" THEN JOk(JObj(ps), e + 1)
            ELSE IF s[e] = "," THEN ParseMembers(s, SkipWS(s, e + 1), ps)
            ELSE JErr

\* the items of an array from position i, which holds the start of a value
ParseItems(s, i, acc) ==
    LET val == ParseValue(s, i) IN
    IF ~val.ok THEN JErr
    ELSE
      LET e == SkipWS(s, val.i)
          xs == Append(acc, val.v)
      IN
      IF e > Len(s) THEN JErr
      ELSE IF s[e] = "]" THEN JOk(JArr(xs), e + 1)
      ELSE IF s[e] = "," THEN ParseItems(s, SkipWS(s, e + 1), xs)
      ELSE JErr

ParseValue(s, i) ==
    IF i > Len(s) THEN JErr
    ELSE IF s[i] = "\"" THEN ScanString(s, i + 1, <<>>)
    ELSE IF s[i] = "{" THEN
      LET j == SkipWS(s, i + 1) IN
      IF j <= Len(s) /\ s[j] = "}" THEN JOk(JObj(<<>>), j + 1)
      ELSE ParseMembers(s, j, <<>>)
    ELSE IF s[i] = "[" THEN
      LET j == SkipWS(s, i + 1) IN
      IF j <= Len(s) /\ s[j] = "]" THEN JOk(JArr(<<>>), j + 1)
      ELSE ParseItems(s, j, <<>>)
    ELSE IF MatchAt(s, <<"n", "u", "l", "l">>, i) THEN JOk(JNull, i + 4)
    ELSE IF MatchAt(s, <<"t", "r", "u", "e">>, i) THEN JOk(JBool(TRUE), i + 4)
    ELSE IF MatchAt(s, <<"f", "a", "l", "s", "e">>, i) THEN JOk(JBool(FALSE), i + 5)
    ELSE JErr

\* json.loads(s): one value between optional whitespace, nothing after it
json_loads(s) ==
    LET val == ParseValue(s, SkipWS(s, 1)) IN
    IF val.ok /\ SkipWS(s, val.i) > Len(s) THEN val ELSE JErr

(***************************************************************************)
(* Texts of the source                                                     *)
(***************************************************************************)

K_company_name ==
    <<"c", "o", "m", "p", "a", "n", "y", "_", "n", "a", "m", "e">>

K_job_title ==
    <<"j", "o", "b", "_", "t", "i", "t", "l", "e">>

K_keywords_added ==
    <<"k", "e", "y", "w", "o", "r", "d", "s", "_", "a", "d", "d", "e", "d">>

K_name ==
    <<"n", "a", "m", "e">>

K_contact ==
    <<"c", "o", "n", "t", "a", "c", "t">>

UnknownCompany ==
    <<"U", "n", "k", "n", "o", "w", "n", " ", "C", "o", "m", "p", "a", "n",
      "y">>

UnknownPosition ==
    <<"U", "n", "k", "n", "o", "w", "n", " ", "P", "o", "s", "i", "t", "i",
      "o", "n">>

MultipartFormData ==
    <<"m", "u", "l", "t", "i", "p", "a", "r", "t", "/", "f", "o", "r", "m",
      "-", "d", "a", "t", "a">>

BoundaryEq ==
    <<"b", "o", "u", "n", "d", "a", "r", "y", "=">>


(***************************************************************************)
(* The LLM helpers: fence-stripping and decoding of a response             *)
(***************************************************************************)

\* "Remove markdown code blocks if present": response_text after .strip(),
\* the split on the fence, the removal of a leading json tag and the strip
StripCodeBlock(content) ==
    LET response_text == Strip(content) IN
    IF StartsWith(response_text, Fence)
    THEN LET inner == Split(response_text, Fence)[2] IN
         Strip(IF StartsWith(inner, JsonTag) THEN Drop(inner, 5) ELSE inner)
    ELSE response_text

\* a slip: an undecodable response falls back to the defaults
extract_job_details_Lenient(content) ==
    LET data == json_loads(StripCodeBlock(content)) IN
    IF ~data.ok \/ ~IsObj(data.v)
    THEN [exc |-> "none", company |-> JStr(UnknownCompany),
          title |-> JStr(UnknownPosition)]
    ELSE [exc |-> "none",
          company |-> DictGet(data.v, K_company_name, JStr(UnknownCompany)),
          title |-> DictGet(data.v, K_job_title, JStr(UnknownPosition))]

\* extract_job_details after the LLM call returned content: exc names the
\* exception raised ("none": it returns the pair)
extract_job_details(content) ==
    LET data == json_loads(StripCodeBlock(content)) IN
    IF ~data.ok
    THEN [exc |-> "JSONDecodeError", company |-> JNull, title |-> JNull]
    ELSE IF ~IsObj(data.v)
    THEN [exc |-> "AttributeError", company |-> JNull, title |-> JNull]
    ELSE [exc |-> "none",
          company |-> DictGet(data.v, K_company_name, JStr(UnknownCompany)),
          title |-> DictGet(data.v, K_job_title, JStr(UnknownPosition))]

\* a slip: an undecodable response becomes an empty document
tailor_resume_Lenient(content) ==
    LET data == json_loads(StripCodeBlock(content)) IN
    [exc |-> "none", data |-> IF data.ok THEN data.v ELSE JObj(<<>>)]

\* tailor_resume after the LLM call returned content
tailor_resume(content) ==
    LET data == json_loads(StripCodeBlock(content)) IN
    IF ~data.ok
    THEN [exc |-> "JSONDecodeError", data |-> JNull]
    ELSE [exc |-> "none", data |-> data.v]

(***************************************************************************)
(* Request decoding and response helpers                                   *)
(***************************************************************************)

\* p in s
Contains(s, p) == FindFrom(s, p, 1) # 0

\* s.strip('"')
RECURSIVE StripQuotes(_)
StripQuotes(s) ==
    IF s # <<>> /\ Head(s) = "\"" THEN StripQuotes(Tail(s))
    ELSE IF s # <<>> /\ s[Len(s)] = "\"" THEN StripQuotes(SubSeq(s, 1, Len(s) - 1))
    ELSE s

\* parse_multipart's search for the boundary: the first part of the header,
\* split at ';' and stripped, that starts with boundary=; <<>> when there
\* is none
RECURSIVE BoundaryOf(_)
BoundaryOf(parts) ==
    IF parts = <<>> THEN <<>>
    ELSE LET part == Strip(Head(parts)) IN
         IF StartsWith(part, BoundaryEq) THEN StripQuotes(Drop(part, 10))
         ELSE BoundaryOf(Tail(parts))

\* "if not boundary: raise ValueError"
parse_multipart_raises(content_type) ==
    BoundaryOf(Split(content_type, <<";">>)) = <<>>

\* the characters of the model that \w does not match
NonWordChars ==
    {" ", "\n", "\t", "\r", "-", ",", ".", "&", "!", "/", "\"", "<", ">", ":",
     ";", "=", "{", "}", "[", "]", "*", "|", "@", "(", ")", "'", Backtick}

\* kept by re.sub(r'[^\w\s-]', '', s)
IsSafeChar(c) == c \notin NonWordChars \/ IsSpace(c) \/ c = "-"

RECURSIVE Filter(_)
Filter(s) ==
    IF s = <<>> THEN <<>>
    ELSE IF IsSafeChar(Head(s)) THEN <<Head(s)>> \o Filter(Tail(s))
    ELSE Filter(Tail(s))

\* re.sub(r'[^\w\s-]', '', x).strip().replace(' ', '_')
SafeName(x) ==
    LET t == Strip(Filter(x)) IN
    [i \in 1..Len(t) |-> IF t[i] = " " THEN "_" ELSE t[i]]

ResumePrefix == <<"R", "e", "s", "u", "m", "e", "_">>
PdfSuffix == <<".", "p", "d", "f">>

\* f"Resume_{safe_company}_{safe_title}.pdf"
Filename(company_name, job_title) ==
    ResumePrefix \o SafeName(company_name) \o <<"_">> \o SafeName(job_title)
        \o PdfSuffix

\* the characters of the model outside ISO 8859-1
NonLatin1Chars == {"U+4E2D"}

\* str.encode('latin-1', 'strict') succeeds
EncodesLatin1(s) == \A i \in 1..Len(s) : s[i] \notin NonLatin1Chars

RECURSIVE JoinStrs(_, _)
JoinStrs(sep, xs) ==
    IF xs = <<>> THEN <<>>
    ELSE IF Len(xs) = 1 THEN xs[1]
    ELSE xs[1] \o sep \o JoinStrs(sep, Tail(xs))

\* sep.join(v): the strings yielded by iterating v, joined; ok = FALSE is
\* TypeError (v is not iterable, or yields something that is not a str)
PyJoin(sep, v) ==
    CASE v.t = "arr" ->
           IF \A i \in 1..Len(v.xs) : IsStr(v.xs[i])
           THEN [ok |-> TRUE, s |-> JoinStrs(sep, [i \in 1..Len(v.xs) |-> v.xs[i].s])]
           ELSE [ok |-> FALSE, s |-> <<>>]
      [] v.t = "str" ->
           [ok |-> TRUE, s |-> JoinStrs(sep, [i \in 1..Len(v.s) |-> <<v.s[i]>>])]
      [] v.t = "obj" ->
           [ok |-> TRUE, s |-> JoinStrs(sep, [i \in 1..Len(v.ps) |-> v.ps[i].k])]
      [] OTHER -> [ok |-> FALSE, s |-> <<>>]

(***************************************************************************)
(* Texts of the renderer                                                   *)
(***************************************************************************)

YourName ==
    <<"Y", "o", "u", "r", " ", "N", "a", "m", "e">>

\* the keys the renderer reads from the resume data and its entries
Key ==
    [email |->
        <<"e", "m", "a", "i", "l">>,
     phone |->
        <<"p", "h", "o", "n", "e">>,
     linkedin |->
        <<"l", "i", "n", "k", "e", "d", "i", "n">>,
     github |->
        <<"g", "i", "t", "h", "u", "b">>,
     location |->
        <<"l", "o", "c", "a", "t", "i", "o", "n">>,
     education |->
        <<"e", "d", "u", "c", "a", "t", "i", "o", "n">>,
     experience |->
        <<"e", "x", "p", "e", "r", "i", "e", "n", "c", "e">>,
     projects |->
        <<"p", "r", "o", "j", "e", "c", "t", "s">>,
     skills |->
        <<"s", "k", "i", "l", "l", "s">>,
     certifications |->
        <<"c", "e", "r", "t", "i", "f", "i", "c", "a", "t", "i", "o", "n", "s">>,
     institution |->
        <<"i", "n", "s", "t", "i", "t", "u", "t", "i", "o", "n">>,
     graduation |->
        <<"g", "r", "a", "d", "u", "a", "t", "i", "o", "n">>,
     degree |->
        <<"d", "e", "g", "r", "e", "e">>,
     gpa |->
        <<"g", "p", "a">>,
     relevant_coursework |->
        <<"r", "e", "l", "e", "v", "a", "n", "t", "_", "c", "o", "u", "r", "s", "e", "w", "o", "r", "k">>,
     company |->
        <<"c", "o", "m", "p", "a", "n", "y">>,
     title |->
        <<"t", "i", "t", "l", "e">>,
     duration |->
        <<"d", "u", "r", "a", "t", "i", "o", "n">>,
     bullets |->
        <<"b", "u", "l", "l", "e", "t", "s">>,
     description |->
        <<"d", "e", "s", "c", "r", "i", "p", "t", "i", "o", "n">>,
     technologies |->
        <<"t", "e", "c", "h", "n", "o", "l", "o", "g", "i", "e", "s">>,
     technical |->
        <<"t", "e", "c", "h", "n", "i", "c", "a", "l">>,
     tools |->
        <<"t", "o", "o", "l", "s">>,
     programming_languages |->
        <<"p", "r", "o", "g", "r", "a", "m", "m", "i", "n", "g", "_", "l", "a", "n", "g", "u", "a", "g", "e", "s">>]

H_EDUCATION ==
    <<"E", "D", "U", "C", "A", "T", "I", "O", "N">>

H_EXPERIENCE ==
    <<"E", "X", "P", "E", "R", "I", "E", "N", "C", "E">>

H_PROJECTS ==
    <<"P", "R", "O", "J", "E", "C", "T", "S">>

H_SKILLS ==
    <<"S", "K", "I", "L", "L", "S">>

H_CERTIFICATIONS ==
    <<"C", "E", "R", "T", "I", "F", "I", "C", "A", "T", "I", "O", "N", "S">>

MailtoOpen ==
    <<"<", "a", " ", "h", "r", "e", "f", "=", "\"", "m", "a", "i", "l",
      "t", "o", ":">>

HrefOpen ==
    <<"<", "a", " ", "h", "r", "e", "f", "=", "\"">>

HrefMid ==
    <<"\"", " ", "c", "o", "l", "o", "r", "=", "\"", "b", "l", "u", "e",
      "\"", ">">>

HrefClose ==
    <<"<", "/", "a", ">">>

Https ==
    <<"h", "t", "t", "p", "s", ":", "/", "/">>

Http ==
    <<"h", "t", "t", "p", ":", "/", "/">>

BOpen ==
    <<"<", "b", ">">>

BClose ==
    <<"<", "/", "b", ">">>

IOpen ==
    <<"<", "i", ">">>

IClose ==
    <<"<", "/", "i", ">">>

BulletGlyph ==
    <<"U+2022", " ">>

GpaLabel ==
    <<"U+2022", " ", "<", "b", ">", "G", "P", "A", ":", "<", "/", "b", ">",
      " ">>

CourseworkLabel ==
    <<"U+2022", " ", "<", "b", ">", "R", "e", "l", "e", "v", "a", "n", "t",
      " ", "C", "o", "u", "r", "s", "e", "w", "o", "r", "k", ":", "<", "/",
      "b", ">", " ">>

TechnicalLabel ==
    <<"U+2022", " ", "<", "b", ">", "T", "e", "c", "h", "n", "i", "c", "a",
      "l", ":", "<", "/", "b", ">", " ">>

ToolsLabel ==
    <<"U+2022", " ", "<", "b", ">", "T", "o", "o", "l", "s", " ", "&", "a",
      "m", "p", ";", " ", "F", "r", "a", "m", "e", "w", "o", "r", "k", "s",
      ":", "<", "/", "b", ">", " ">>

LanguagesLabel ==
    <<"U+2022", " ", "<", "b", ">", "P", "r", "o", "g", "r", "a", "m", "m",
      "i", "n", "g", " ", "L", "a", "n", "g", "u", "a", "g", "e", "s", ":",
      "<", "/", "b", ">", " ">>

ContactSep ==
    <<" ", "|", " ">>

CommaSpace ==
    <<",", " ">>

AmpEntity ==
    <<"&", "a", "m", "p", ";">>

LtEntity ==
    <<"&", "l", "t", ";">>

GtEntity ==
    <<"&", "g", "t", ";">>

PyNone ==
    <<"N", "o", "n", "e">>

PyTrue ==
    <<"T", "r", "u", "e">>

PyFalse ==
    <<"F", "a", "l", "s", "e">>


(***************************************************************************)
(* The Markup Normalizer                                                   *)
(***************************************************************************)

\* s.replace(c, by) for a one-character c
RECURSIVE ReplaceChar(_, _, _)
ReplaceChar(s, c, by) ==
    IF s = <<>> THEN <<>>
    ELSE (IF Head(s) = c THEN by ELSE <<Head(s)>>) \o ReplaceChar(Tail(s), c, by)

\* s.replace(p, '') for a text p: every non-overlapping match, left to right
RECURSIVE Remove(_, _)
Remove(s, p) ==
    LET j == FindFrom(s, p, 1) IN
    IF j = 0 THEN s
    ELSE SubSeq(s, 1, j - 1) \o Remove(Drop(s, j + Len(p)), p)

Stars == <<"*", "*">>

\* the position of the ** that closes a match of \*\*(.*?)\*\* opened
\* before position i: the nearest one, with no line break before it ('.'
\* does not match a newline); 0 when there is none
RECURSIVE CloseFrom(_, _)
CloseFrom(s, i) ==
    IF i + 1 > Len(s) THEN 0
    ELSE IF MatchAt(s, Stars, i) THEN i
    ELSE IF s[i] = "\n" THEN 0
    ELSE CloseFrom(s, i + 1)

\* re.sub(r'\*\*(.*?)\*\*', r'<b>\1</b>', s) from position i on
RECURSIVE BoldSub(_, _)
BoldSub(s, i) ==
    IF i > Len(s) THEN <<>>
    ELSE IF MatchAt(s, Stars, i) /\ CloseFrom(s, i + 2) # 0
    THEN LET j == CloseFrom(s, i + 2) IN
         BOpen \o SubSeq(s, i + 2, j - 1) \o BClose \o BoldSub(s, j + 2)
    ELSE <<s[i]>> \o BoldSub(s, i + 1)

\* a slip: the bold replacement without the three escapes before it
Normalize_NoEscape(text) == BoldSub(text, 1)

\* a slip: the & escaped after the < and the >, not before them
Escape_AmpLast(text) ==
    LET a == ReplaceChar(text, "<", LtEntity)
        b == ReplaceChar(a, ">", GtEntity)
    IN ReplaceChar(b, "&", AmpEntity)

\* the three replace calls, in the order of the code: & first, then <,
\* then >
Escape(text) ==
    LET a == ReplaceChar(text, "&", AmpEntity)
        b == ReplaceChar(a, "<", LtEntity)
    IN ReplaceChar(b, ">", GtEntity)

\* process_bold_markers on a str
Normalize(text) == BoldSub(Escape(text), 1)

\* process_bold_markers(text): a falsy text gives "", a str is normalized,
\* anything else has no .replace (AttributeError)
process_bold_markers(text) ==
    IF ~Truthy(text) THEN [exc |-> "none", s |-> <<>>]
    ELSE IF IsStr(text) THEN [exc |-> "none", s |-> Normalize(text.s)]
    ELSE [exc |-> "AttributeError", s |-> <<>>]

(***************************************************************************)
(* The renderer: generate_pdf_resume builds the list of flowables.  A      *)
(* result is [exc, elements]; exc = "none" when nothing was raised.        *)
(***************************************************************************)

\* str(v) as an f-string field formats it
RECURSIVE Format(_)
RECURSIVE Repr(_)
RECURSIVE ReprItems(_)
RECURSIVE ReprPairs(_)

Repr(v) ==
    IF IsStr(v) THEN <<"'">> \o v.s \o <<"'">> ELSE Format(v)

ReprItems(xs) ==
    IF xs = <<>> THEN <<>>
    ELSE IF Len(xs) = 1 THEN Repr(xs[1])
    ELSE Repr(xs[1]) \o CommaSpace \o ReprItems(Tail(xs))

ReprPairs(ps) ==
    IF ps = <<>> THEN <<>>
    ELSE LET one == <<"'">> \o ps[1].k \o <<"'", ":", " ">> \o Repr(ps[1].v) IN
         IF Len(ps) = 1 THEN one ELSE one \o CommaSpace \o ReprPairs(Tail(ps))

Format(v) ==
    CASE v.t = "str" -> v.s
      [] v.t = "null" -> PyNone
      [] v.t = "bool" -> IF v.b THEN PyTrue ELSE PyFalse
      [] v.t = "arr" -> <<"[">> \o ReprItems(v.xs) \o <<"]">>
      [] v.t = "obj" -> <<"{">> \o ReprPairs(v.ps) \o <<"}">>

Done(elements) == [exc |-> "none", elements |-> elements]
Raise(exc) == [exc |-> exc, elements |-> <<>>]

\* a then b: b is not evaluated once a raised
Then(a, b) ==
    IF a.exc # "none" THEN a
    ELSE IF b.exc # "none" THEN b
    ELSE Done(a.elements \o b.elements)

Para(text, style) == [e |-> "Paragraph", text |-> text, style |-> style]
HRule == [e |-> "HRFlowable", text |-> <<>>, style |-> "rule"]
Space == [e |-> "Spacer", text |-> <<>>, style |-> "space"]
Row(left, right) == [e |-> "Table", text |-> left, style |-> "row", right |-> right]

\* Paragraph(v, style) for a value taken from the document as it is:
\* the paragraph's text must be a str
RawPara(v, style) ==
    IF IsStr(v) THEN Done(<<Para(v.s, style)>>) ELSE Raise("AttributeError")

\* Table([[Paragraph(left), Paragraph(v)]]) with v taken as it is
RawRow(left, v) ==
    IF IsStr(v) THEN Done(<<Row(left, v.s)>>) ELSE Raise("AttributeError")

\* the section heading and its rule
Heading(title) == <<Para(title, "section"), HRule>>

\* what "for x in v" iterates over; ok = FALSE is TypeError
Iterate(v) ==
    CASE v.t = "arr" -> [ok |-> TRUE, xs |-> v.xs]
      [] v.t = "str" -> [ok |-> TRUE, xs |-> [i \in 1..Len(v.s) |-> JStr(<<v.s[i]>>)]]
      [] v.t = "obj" -> [ok |-> TRUE, xs |-> [i \in 1..Len(v.ps) |-> JStr(v.ps[i].k)]]
      [] OTHER -> [ok |-> FALSE, xs |-> <<>>]

\* "for bullet in bullets: Paragraph(f'* {process_bold_markers(bullet)}')"
RECURSIVE BulletLines(_)
BulletLines(xs) ==
    IF xs = <<>> THEN Done(<<>>)
    ELSE LET b == process_bold_markers(Head(xs)) IN
         IF b.exc # "none" THEN Raise(b.exc)
         ELSE Then(Done(<<Para(BulletGlyph \o b.s, "bullet")>>), BulletLines(Tail(xs)))

Bullets(entry) ==
    LET it == Iterate(DictGet(entry, Key.bullets, JArr(<<>>))) IN
    IF ~it.ok THEN Raise("TypeError") ELSE BulletLines(it.xs)

\* the header: the name paragraph
HeaderBlock(resume_data) ==
    RawPara(DictGet(resume_data, K_name, JStr(YourName)), "name")

\* one link of the contact line; url.replace needs a str
ContactLink(url) ==
    IF ~IsStr(url) THEN [exc |-> "AttributeError", s |-> <<>>]
    ELSE [exc |-> "none",
          s |-> HrefOpen \o url.s \o HrefMid
                \o Remove(Remove(url.s, Https), Http) \o HrefClose]

\* the contact line
ContactBlock(resume_data) ==
    LET contact == DictGet(resume_data, K_contact, JObj(<<>>)) IN
    IF ~IsObj(contact) THEN Raise("AttributeError")
    ELSE
      LET f(k) == DictGet(contact, k, JNull)
          email == IF Truthy(f(Key.email))
                   THEN <<JStr(MailtoOpen \o Format(f(Key.email)) \o HrefMid
                               \o Format(f(Key.email)) \o HrefClose)>>
                   ELSE <<>>
          phone == IF Truthy(f(Key.phone)) THEN <<f(Key.phone)>> ELSE <<>>
          linkedin == ContactLink(f(Key.linkedin))
          github == ContactLink(f(Key.github))
          location == IF Truthy(f(Key.location)) THEN <<f(Key.location)>> ELSE <<>>
      IN
      IF Truthy(f(Key.linkedin)) /\ linkedin.exc # "none" THEN Raise(linkedin.exc)
      ELSE IF Truthy(f(Key.github)) /\ github.exc # "none" THEN Raise(github.exc)
      ELSE
        LET contact_parts ==
              email \o phone
              \o (IF Truthy(f(Key.linkedin)) THEN <<JStr(linkedin.s)>> ELSE <<>>)
              \o (IF Truthy(f(Key.github)) THEN <<JStr(github.s)>> ELSE <<>>)
              \o location
            line == PyJoin(ContactSep, JArr(contact_parts))
        IN
        IF contact_parts = <<>> THEN Done(<<>>)
        ELSE IF ~line.ok THEN Raise("TypeError")
        ELSE Done(<<Para(line.s, "contact")>>)

\* one education entry
EducationEntry(edu) ==
    IF ~IsObj(edu) THEN Raise("AttributeError")
    ELSE
      LET f(k) == DictGet(edu, k, JNull)
          g(k) == DictGet(edu, k, JStr(<<>>))
      IN
      Then(Done(<<Row(BOpen \o Format(g(Key.institution)) \o BClose,
                      BOpen \o Format(g(Key.graduation)) \o BClose)>>),
      Then(IF Truthy(f(Key.degree)) THEN RawPara(f(Key.degree), "normal") ELSE Done(<<>>),
      Then(Done(IF Truthy(f(Key.gpa))
                THEN <<Para(GpaLabel \o Format(f(Key.gpa)), "bullet")>>
                ELSE <<>>),
      Then(Done(IF Truthy(f(Key.relevant_coursework))
                THEN <<Para(CourseworkLabel \o Format(f(Key.relevant_coursework)),
                            "bullet")>>
                ELSE <<>>),
           Done(<<Space>>)))))

\* one experience entry
ExperienceEntry(exp) ==
    IF ~IsObj(exp) THEN Raise("AttributeError")
    ELSE
      LET g(k) == DictGet(exp, k, JStr(<<>>)) IN
      Then(RawRow(BOpen \o Format(g(Key.company)) \o BClose, g(Key.location)),
      Then(RawRow(IOpen \o Format(g(Key.title)) \o IClose, g(Key.duration)),
      Then(Bullets(exp),
           Done(<<Space>>))))

\* one project entry
ProjectEntry(proj) ==
    IF ~IsObj(proj) THEN Raise("AttributeError")
    ELSE
      LET f(k) == DictGet(proj, k, JNull)
          g(k) == DictGet(proj, k, JStr(<<>>))
      IN
      Then(RawRow(BOpen \o Format(g(K_name)) \o BClose, g(Key.location)),
      Then(IF Truthy(f(Key.technologies)) \/ Truthy(f(Key.duration))
           THEN RawRow(IOpen \o Format(g(Key.technologies)) \o IClose, g(Key.duration))
           ELSE Done(<<>>),
      Then(Bullets(proj),
           Done(<<Space>>))))

\* one project entry of pdf_generator.py: as above, with the description
\* line between the rows and the bullets
ProjectEntryDescribed(proj) ==
    IF ~IsObj(proj) THEN Raise("AttributeError")
    ELSE
      LET f(k) == DictGet(proj, k, JNull)
          g(k) == DictGet(proj, k, JStr(<<>>))
      IN
      Then(RawRow(BOpen \o Format(g(K_name)) \o BClose, g(Key.location)),
      Then(IF Truthy(g(Key.technologies)) \/ Truthy(g(Key.duration))
           THEN RawRow(IOpen \o Format(g(Key.technologies)) \o IClose, g(Key.duration))
           ELSE Done(<<>>),
      Then(IF Truthy(f(Key.description))
           THEN RawPara(f(Key.description), "normal")
           ELSE Done(<<>>),
      Then(Bullets(proj),
           Done(<<Space>>)))))

\* one certification line
CertificationEntry(cert) ==
    Done(<<Para(BulletGlyph \o Format(cert), "bullet")>>)

RECURSIVE Entries(_, _)
Entries(kind, xs) ==
    IF xs = <<>> THEN Done(<<>>)
    ELSE Then(CASE kind = "education" -> EducationEntry(Head(xs))
                [] kind = "experience" -> ExperienceEntry(Head(xs))
                [] kind = "projects" -> ProjectEntry(Head(xs))
                [] kind = "projects_described" -> ProjectEntryDescribed(Head(xs))
                [] kind = "certifications" -> CertificationEntry(Head(xs)),
              Entries(kind, Tail(xs)))

\* a slip: the section is written whether or not its list is empty
ListSection_NoGuard(resume_data, key, title, kind, spacer) ==
    LET v == DictGet(resume_data, key, JArr(<<>>)) IN
    IF ~Iterate(v).ok THEN Raise("TypeError")
    ELSE Then(Done(Heading(title)),
         Then(Entries(kind, Iterate(v).xs), Done(spacer)))

\* a list section: nothing when the list is falsy, else the heading, the
\* rule and the entries
ListSection(resume_data, key, title, kind, spacer) ==
    LET v == DictGet(resume_data, key, JNull) IN
    IF ~Truthy(v) THEN Done(<<>>)
    ELSE IF ~Iterate(v).ok THEN Raise("TypeError")
    ELSE Then(Done(Heading(title)),
         Then(Entries(kind, Iterate(v).xs), Done(spacer)))

\* one line of the skills section
SkillLine(skills, key, label) ==
    LET v == DictGet(skills, key, JNull)
        line == PyJoin(CommaSpace, v)
    IN
    IF ~Truthy(v) THEN Done(<<>>)
    ELSE IF ~line.ok THEN Raise("TypeError")
    ELSE Done(<<Para(label \o line.s, "bullet")>>)

\* the skills section
SkillsBlock(resume_data) ==
    LET skills == DictGet(resume_data, Key.skills, JNull) IN
    IF ~Truthy(skills) THEN Done(<<>>)
    ELSE IF ~IsObj(skills) THEN Raise("AttributeError")
    ELSE Then(Done(Heading(H_SKILLS)),
         Then(SkillLine(skills, Key.technical, TechnicalLabel),
         Then(SkillLine(skills, Key.tools, ToolsLabel),
         Then(SkillLine(skills, Key.programming_languages, LanguagesLabel),
              Done(<<Space>>)))))

\* a slip: the projects section is written before education and experience
generate_pdf_resume_ProjectsFirst(resume_data) ==
    IF ~IsObj(resume_data) THEN Raise("AttributeError")
    ELSE
      Then(HeaderBlock(resume_data),
      Then(ContactBlock(resume_data),
      Then(ListSection(resume_data, Key.projects, H_PROJECTS, "projects", <<>>),
      Then(ListSection(resume_data, Key.education, H_EDUCATION, "education", <<>>),
      Then(ListSection(resume_data, Key.experience, H_EXPERIENCE, "experience", <<>>),
      Then(SkillsBlock(resume_data),
           ListSection(resume_data, Key.certifications, H_CERTIFICATIONS,
                       "certifications", <<Space>>)))))))

\* generate_pdf_resume: the flowables handed to doc.build, or the exception
generate_pdf_resume(resume_data) ==
    IF ~IsObj(resume_data) THEN Raise("AttributeError")
    ELSE
      Then(HeaderBlock(resume_data),
      Then(ContactBlock(resume_data),
      Then(ListSection(resume_data, Key.education, H_EDUCATION, "education", <<>>),
      Then(ListSection(resume_data, Key.experience, H_EXPERIENCE, "experience", <<>>),
      Then(ListSection(resume_data, Key.projects, H_PROJECTS, "projects", <<>>),
      Then(SkillsBlock(resume_data),
           ListSection(resume_data, Key.certifications, H_CERTIFICATIONS,
                       "certifications", <<Space>>)))))))

\* generate_pdf_resume of pdf_generator.py
pdf_generator_generate_pdf_resume(resume_data) ==
    IF ~IsObj(resume_data) THEN Raise("AttributeError")
    ELSE
      Then(HeaderBlock(resume_data),
      Then(ContactBlock(resume_data),
      Then(ListSection(resume_data, Key.education, H_EDUCATION, "education", <<>>),
      Then(ListSection(resume_data, Key.experience, H_EXPERIENCE, "experience", <<>>),
      Then(ListSection(resume_data, Key.projects, H_PROJECTS, "projects_described",
                       <<>>),
      Then(SkillsBlock(resume_data),
           ListSection(resume_data, Key.certifications, H_CERTIFICATIONS,
                       "certifications", <<Space>>)))))))

\* a slip: the list of flowables is kept from one call to the next
generate_pdf_resume_SharedElements(earlier, resume_data, company_name, job_title) ==
    LET built == generate_pdf_resume(resume_data) IN
    IF built.exc # "none" THEN built
    ELSE Done(earlier.elements \o built.elements)

\* one call of generate_pdf_resume(resume_data, company_name, job_title) in
\* a process whose earlier call, if any, returned earlier: buffer, doc,
\* styles and elements are made anew, and the two names are not read
generate_pdf_resume_call(earlier, resume_data, company_name, job_title) ==
    LET elements == <<>>
        built == generate_pdf_resume(resume_data)
    IN
    IF built.exc # "none" THEN built
    ELSE Done(elements \o built.elements)

(***************************************************************************)
(* The requests and the collaborators' answers the model draws from        *)
(***************************************************************************)

CT_Json ==
    <<"a", "p", "p", "l", "i", "c", "a", "t", "i", "o", "n", "/", "j", "s",
      "o", "n">>

CT_NoBoundary ==
    <<"m", "u", "l", "t", "i", "p", "a", "r", "t", "/", "f", "o", "r", "m",
      "-", "d", "a", "t", "a">>

CT_EmptyBoundary ==
    <<"m", "u", "l", "t", "i", "p", "a", "r", "t", "/", "f", "o", "r", "m",
      "-", "d", "a", "t", "a", ";", " ", "b", "o", "u", "n", "d", "a", "r",
      "y", "=", "\"", "\"">>

CT_Multipart ==
    <<"m", "u", "l", "t", "i", "p", "a", "r", "t", "/", "f", "o", "r", "m",
      "-", "d", "a", "t", "a", ";", " ", "b", "o", "u", "n", "d", "a", "r",
      "y", "=", "x", "7">>

JobText ==
    <<"D", "e", "v", " ", "a", "t", " ", "A", "c", "m", "e">>

ResumeText ==
    <<"A", "d", "a">>

CallerCompany ==
    <<"A", "b", " ", "&", " ", "C", "o">>

CallerCompanyCJK ==
    <<"U+4E2D">>

CallerTitle ==
    <<"Q", "A">>

D_Bare ==
    <<"{", "\"", "c", "o", "m", "p", "a", "n", "y", "_", "n", "a", "m",
      "e", "\"", ":", " ", "\"", "A", "c", "m", "e", "\"", ",", " ", "\"",
      "j", "o", "b", "_", "t", "i", "t", "l", "e", "\"", ":", " ", "\"",
      "D", "e", "v", "\"", "}">>

D_Fenced ==
    <<Backtick, Backtick, Backtick, "j", "s", "o", "n", "\n", "{", "\"",
      "c", "o", "m", "p", "a", "n", "y", "_", "n", "a", "m", "e", "\"",
      ":", " ", "\"", "A", "c", "m", "e", "\"", ",", " ", "\"", "j", "o",
      "b", "_", "t", "i", "t", "l", "e", "\"", ":", " ", "\"", "D", "e",
      "v", "\"", "}", "\n", Backtick, Backtick, Backtick>>

D_Empty ==
    <<"{", "}">>

D_NotJson ==
    <<"S", "o", "r", "r", "y">>

D_List ==
    <<"[", "\"", "A", "c", "m", "e", "\"", "]">>

D_Nulls ==
    <<"{", "\"", "c", "o", "m", "p", "a", "n", "y", "_", "n", "a", "m",
      "e", "\"", ":", " ", "n", "u", "l", "l", ",", " ", "\"", "j", "o",
      "b", "_", "t", "i", "t", "l", "e", "\"", ":", " ", "\"", "\"", "}">>

D_FenceInside ==
    <<Backtick, Backtick, Backtick, "j", "s", "o", "n", "\n", "{", "\"",
      "c", "o", "m", "p", "a", "n", "y", "_", "n", "a", "m", "e", "\"",
      ":", " ", "\"", "A", Backtick, Backtick, Backtick, "B", "\"", ",",
      " ", "\"", "j", "o", "b", "_", "t", "i", "t", "l", "e", "\"", ":",
      " ", "\"", "D", "e", "v", "\"", "}", "\n", Backtick, Backtick,
      Backtick>>

T_Bare ==
    <<"{", "\"", "n", "a", "m", "e", "\"", ":", " ", "\"", "A", "d", "a",
      "\"", "}">>

T_Fenced ==
    <<Backtick, Backtick, Backtick, "j", "s", "o", "n", "\n", "{", "\"",
      "n", "a", "m", "e", "\"", ":", " ", "\"", "A", "d", "a", "\"", ",",
      " ", "\"", "k", "e", "y", "w", "o", "r", "d", "s", "_", "a", "d",
      "d", "e", "d", "\"", ":", " ", "[", "\"", "s", "q", "l", "\"", ",",
      " ", "\"", "g", "o", "\"", "]", "}", "\n", Backtick, Backtick,
      Backtick>>

T_FencedNoTag ==
    <<Backtick, Backtick, Backtick, "\n", "{", "\"", "n", "a", "m", "e",
      "\"", ":", " ", "\"", "A", "d", "a", "\"", "}", "\n", Backtick,
      Backtick, Backtick>>

T_NotJson ==
    <<"I", " ", "c", "a", "n", "n", "o", "t">>

T_List ==
    <<"[", "]">>

T_BadKeywords ==
    <<"{", "\"", "n", "a", "m", "e", "\"", ":", " ", "\"", "A", "d", "a",
      "\"", ",", " ", "\"", "k", "e", "y", "w", "o", "r", "d", "s", "_",
      "a", "d", "d", "e", "d", "\"", ":", " ", "[", "n", "u", "l", "l",
      "]", "}">>

T_WideKeyword ==
    <<"{", "\"", "k", "e", "y", "w", "o", "r", "d", "s", "_", "a", "d",
      "d", "e", "d", "\"", ":", " ", "[", "\"", "U+4E2D", "\"", "]", "}">>

T_NullContact ==
    <<"{", "\"", "c", "o", "n", "t", "a", "c", "t", "\"", ":", " ", "n",
      "u", "l", "l", "}">>

T_Empty ==
    <<"{", "}">>

T_Sections ==
    <<"{", "\"", "n", "a", "m", "e", "\"", ":", " ", "\"", "A", "d", "a",
      "\"", ",", " ", "\"", "e", "x", "p", "e", "r", "i", "e", "n", "c",
      "e", "\"", ":", " ", "[", "{", "\"", "c", "o", "m", "p", "a", "n",
      "y", "\"", ":", " ", "\"", "X", "\"", ",", " ", "\"", "b", "u", "l",
      "l", "e", "t", "s", "\"", ":", " ", "[", "\"", "*", "*", "a", "*",
      "*", " ", "b", "\"", "]", "}", "]", ",", " ", "\"", "s", "k", "i",
      "l", "l", "s", "\"", ":", " ", "{", "\"", "t", "o", "o", "l", "s",
      "\"", ":", " ", "[", "\"", "g", "o", "\"", "]", "}", "}">>


\* the requests in flight
Requests == {1}

\* a form field the caller did not send
NoField == [t |-> "absent"]

\* a local variable not yet assigned
Unset == [t |-> "unset"]

\* form_data['fields'].get(name, '')
FieldGet(form, name) == IF form[name] = NoField THEN JStr(<<>>) ELSE form[name]

ContentTypes == {<<>>, CT_Json, CT_NoBoundary, CT_EmptyBoundary, CT_Multipart}

RequestSpace ==
    [deploy : {"vercel", "netlify"},
     method : {"POST", "OPTIONS", "GET"},
     api_key : BOOLEAN,
     body_ok : BOOLEAN,
     content_type : ContentTypes,
     resume : BOOLEAN,
     job_description : {NoField, JStr(<<>>), JStr(JobText)},
     company_name : {NoField, JStr(<<>>), JStr(CallerCompany), JStr(CallerCompanyCJK)},
     job_title : {NoField, JStr(<<>>), JStr(CallerTitle)}]

\* what PdfReader and page.extract_text() can do with the uploaded bytes
ExtractOutcomes ==
    {[raised |-> TRUE, text |-> <<>>],
     [raised |-> FALSE, text |-> <<" ", "\n">>],
     [raised |-> FALSE, text |-> ResumeText \o <<"\n">>]}

\* what client.chat.completions.create can do: raise, or return a content
LLMOutcomes(contents) ==
    {[raised |-> TRUE, content |-> <<>>]}
        \cup {[raised |-> FALSE, content |-> c] : c \in contents}

DetailResponses ==
    {D_Bare, D_Fenced, D_Empty, D_NotJson, D_List, D_Nulls, D_FenceInside}

TailorResponses ==
    {T_Bare, T_Fenced, T_FencedNoTag, T_NotJson, T_List, T_BadKeywords,
     T_WideKeyword, T_NullContact, T_Empty, T_Sections}

(***************************************************************************)
(* The response                                                            *)
(***************************************************************************)

StatusLine(code) == [k |-> "status", code |-> code]
Header(name, val) == [k |-> "header", name |-> name, val |-> val]
EndHeaders == [k |-> "end_headers"]
ErrorBody(message) == [k |-> "body", kind |-> "error", error |-> message]
PdfBody(elements) == [k |-> "body", kind |-> "pdf", elements |-> elements]
EmptyBody == [k |-> "body", kind |-> "empty"]

Msg(text, detail) == [text |-> text, detail |-> detail]

CorsHeaders ==
    <<Header("Access-Control-Allow-Origin", "*"),
      Header("Access-Control-Allow-Methods", "POST, OPTIONS"),
      Header("Access-Control-Allow-Headers", "Content-Type")>>

IsVercel(r) == request[r].deploy = "vercel"

\* vercel: send_error_response appends the status line and the header to
\* the header buffer, end_headers flushes the buffer, the body follows;
\* netlify: make_response(status_code, json.dumps({"error": message}))
send_error_response(r, status_code, message) ==
    /\ wfile' = [wfile EXCEPT ![r] =
         IF IsVercel(r)
         THEN @ \o hdrbuf[r]
                \o <<StatusLine(status_code),
                     Header("Content-Type", "application/json"),
                     EndHeaders, ErrorBody(message)>>
         ELSE <<StatusLine(status_code),
                Header("Content-Type", "application/json"),
                ErrorBody(message)>>]
    /\ hdrbuf' = [hdrbuf EXCEPT ![r] = <<>>]
    /\ pc' = [pc EXCEPT ![r] = "done"]

\* an exception: its class and str(e)
Exc(type, text) == [type |-> type, text |-> text]

\* a slip: the failed step is attempted again instead of answering
Except_Retry(r, e) ==
    /\ pc' = pc
    /\ UNCHANGED <<hdrbuf, wfile>>

\* the except clauses of the handler
Except(r, e) ==
    IF e.type = "JSONDecodeError"
    THEN send_error_response(r, 500, Msg("Failed to parse AI response: ", e.text))
    ELSE send_error_response(r, 500, Msg("Error: ", e.text))

\* the handler goes on to the next statement
Goto(r, label) ==
    /\ pc' = [pc EXCEPT ![r] = label]
    /\ UNCHANGED <<hdrbuf, wfile>>

(***************************************************************************)
(* The handler, statement by statement                                     *)
(***************************************************************************)

Init ==
    /\ request \in [Requests -> {q \in RequestSpace :
                                   q.deploy = "vercel" => q.method # "GET"}]
    /\ pc = [r \in Requests |-> "dispatch"]
    /\ env = [r \in Requests |->
                [company_name |-> Unset, job_title |-> Unset,
                 job_description |-> Unset, resume_text |-> Unset,
                 response_text |-> Unset, tailored_data |-> Unset,
                 pdf_bytes |-> Unset, filename |-> Unset]]
    /\ log = [r \in Requests |-> <<>>]
    /\ hdrbuf = [r \in Requests |-> <<>>]
    /\ wfile = [r \in Requests |-> <<>>]
    /\ probe = Unset

\* do_OPTIONS / do_POST by the method (vercel); the httpMethod tests of
\* the netlify handler
Dispatch(r) ==
    /\ pc[r] = "dispatch"
    /\ UNCHANGED <<request, env, log, probe>>
    /\ IF request[r].method = "OPTIONS"
       THEN /\ wfile' = [wfile EXCEPT ![r] =
                 IF IsVercel(r)
                 THEN <<StatusLine(200)>> \o CorsHeaders \o <<EndHeaders>>
                 ELSE <<StatusLine(200)>> \o CorsHeaders \o <<EmptyBody>>]
            /\ pc' = [pc EXCEPT ![r] = "done"]
            /\ UNCHANGED hdrbuf
       ELSE IF request[r].method # "POST"
       THEN /\ wfile' = [wfile EXCEPT ![r] =
                 <<StatusLine(405), Header("Content-Type", "application/json"),
                   ErrorBody(Msg("Method not allowed", ""))>>]
            /\ pc' = [pc EXCEPT ![r] = "done"]
            /\ UNCHANGED hdrbuf
       ELSE Goto(r, "api_key")

\* a slip: the key is read and not tested
CheckApiKey_Untested(r) ==
    /\ pc[r] = "api_key"
    /\ UNCHANGED <<request, env, log, probe>>
    /\ Goto(r, "read_body")

\* api_key = os.environ.get('OPENROUTER_API_KEY')
CheckApiKey(r) ==
    /\ pc[r] = "api_key"
    /\ UNCHANGED <<request, env, log, probe>>
    /\ IF ~request[r].api_key
       THEN send_error_response(r, 500, Msg("OPENROUTER_API_KEY not configured", ""))
       ELSE Goto(r, "read_body")

\* vercel: int(Content-Length) and rfile.read; netlify: base64.b64decode
ReadBody(r) ==
    /\ pc[r] = "read_body"
    /\ UNCHANGED <<request, env, log, probe>>
    /\ IF ~request[r].body_ok
       THEN Except(r, Exc("ValueError", "the request body cannot be read"))
       ELSE Goto(r, "content_type")

\* 'multipart/form-data' not in content_type
CheckContentType(r) ==
    /\ pc[r] = "content_type"
    /\ UNCHANGED <<request, env, log, probe>>
    /\ IF ~Contains(request[r].content_type, MultipartFormData)
       THEN send_error_response(r, 400, Msg("Expected multipart/form-data", ""))
       ELSE Goto(r, "parse_multipart")

\* form_data = parse_multipart(content_type, body)
ParseMultipart(r) ==
    /\ pc[r] = "parse_multipart"
    /\ UNCHANGED <<request, env, log, probe>>
    /\ IF parse_multipart_raises(request[r].content_type)
       THEN Except(r, Exc("ValueError", "No boundary found in Content-Type header"))
       ELSE Goto(r, "validate")

\* the required fields, then the optional ones
ValidateFields(r) ==
    /\ pc[r] = "validate"
    /\ UNCHANGED <<request, log, probe>>
    /\ IF ~request[r].resume
       THEN /\ send_error_response(r, 400, Msg("Resume file is required", ""))
            /\ UNCHANGED env
       ELSE IF ~Truthy(FieldGet(request[r], "job_description"))
       THEN /\ send_error_response(r, 400, Msg("Job description is required", ""))
            /\ UNCHANGED env
       ELSE /\ env' = [env EXCEPT
                 ![r].job_description = FieldGet(request[r], "job_description"),
                 ![r].company_name = FieldGet(request[r], "company_name"),
                 ![r].job_title = FieldGet(request[r], "job_title")]
            /\ Goto(r, "extract_text")

\* a slip: "and" for "or"
NeedsJobDetails_And(company_name, job_title) ==
    ~Truthy(company_name) /\ ~Truthy(job_title)

\* a slip: the job title is not tested
NeedsJobDetails_CompanyOnly(company_name, job_title) ==
    ~Truthy(company_name)

\* "if not company_name or not job_title"
NeedsJobDetails(company_name, job_title) ==
    ~Truthy(company_name) \/ ~Truthy(job_title)

\* a slip: a missing value is taken from a cache that the requests share,
\* the company name of the first request holding one
FillMissing_Cached(supplied, extracted) ==
    LET holders == {q \in DOMAIN env : IsStr(env[q].company_name)
                                        /\ Truthy(env[q].company_name)}
    IN
    IF Truthy(supplied) THEN supplied
    ELSE IF holders = {} THEN extracted
    ELSE env[CHOOSE q \in holders : \A p \in holders : q <= p].company_name

\* a slip: the extracted value is assigned without the test
FillMissing_Overwrite(supplied, extracted) == extracted

\* "if not company_name: company_name = extracted_company", and the same
\* for job_title
FillMissing(supplied, extracted) ==
    IF ~Truthy(supplied) THEN extracted ELSE supplied

\* resume_text = extract_text_from_pdf(resume_bytes)
ExtractText(r) ==
    /\ pc[r] = "extract_text"
    /\ UNCHANGED <<request, probe>>
    /\ \E out \in ExtractOutcomes :
         /\ log' = [log EXCEPT ![r] =
               Append(@, [op |-> "extract_text", raised |-> out.raised,
                          text |-> Strip(out.text)])]
         /\ IF out.raised
            THEN /\ Except(r, Exc("ValueError", "Failed to extract PDF text"))
                 /\ UNCHANGED env
            ELSE IF Strip(out.text) = <<>>
            THEN /\ send_error_response(r, 400,
                        Msg("Could not extract text from resume PDF", ""))
                 /\ UNCHANGED env
            ELSE /\ env' = [env EXCEPT ![r].resume_text = JStr(Strip(out.text))]
                 /\ Goto(r, IF NeedsJobDetails(env[r].company_name, env[r].job_title)
                            THEN "extract_job_details" ELSE "tailor_resume")

\* extract_job_details: client.chat.completions.create(...)
ExtractJobDetailsCall(r) ==
    /\ pc[r] = "extract_job_details"
    /\ UNCHANGED <<request, probe>>
    /\ \E out \in LLMOutcomes(DetailResponses) :
         /\ log' = [log EXCEPT ![r] =
               Append(@, [op |-> "llm_details", raised |-> out.raised,
                          content |-> out.content])]
         /\ IF out.raised
            THEN /\ Except(r, Exc("APIError", "the LLM call failed"))
                 /\ UNCHANGED env
            ELSE /\ env' = [env EXCEPT ![r].response_text = JStr(out.content)]
                 /\ Goto(r, "parse_job_details")

\* extract_job_details: the response is decoded and returned, then the two
\* assignments under "if not company_name" / "if not job_title"
ExtractJobDetailsReturn(r) ==
    /\ pc[r] = "parse_job_details"
    /\ UNCHANGED <<request, probe>>
    /\ LET got == extract_job_details(env[r].response_text.s) IN
       /\ log' = [log EXCEPT ![r] =
             Append(@, [op |-> "parse_details", raised |-> got.exc # "none"])]
       /\ IF got.exc # "none"
          THEN /\ Except(r, Exc(got.exc, "the response cannot be decoded"))
               /\ UNCHANGED env
          ELSE /\ env' = [env EXCEPT
                    ![r].company_name = FillMissing(@, got.company),
                    ![r].job_title = FillMissing(@, got.title)]
               /\ Goto(r, "tailor_resume")

\* tailor_resume: client.chat.completions.create(...) with the prompt
\* that embeds company_name and job_title
TailorResumeCall(r) ==
    /\ pc[r] = "tailor_resume"
    /\ UNCHANGED <<request, probe>>
    /\ \E out \in LLMOutcomes(TailorResponses) :
         /\ log' = [log EXCEPT ![r] =
               Append(@, [op |-> "llm_tailor", raised |-> out.raised,
                          content |-> out.content,
                          company_name |-> env[r].company_name,
                          job_title |-> env[r].job_title])]
         /\ IF out.raised
            THEN /\ Except(r, Exc("APIError", "the LLM call failed"))
                 /\ UNCHANGED env
            ELSE /\ env' = [env EXCEPT ![r].response_text = JStr(out.content)]
                 /\ Goto(r, "parse_tailored")

\* tailor_resume: the response is decoded; tailored_data = its value
TailorResumeReturn(r) ==
    /\ pc[r] = "parse_tailored"
    /\ UNCHANGED <<request, probe>>
    /\ LET got == tailor_resume(env[r].response_text.s) IN
       /\ log' = [log EXCEPT ![r] =
             Append(@, [op |-> "parse_model", raised |-> got.exc # "none"])]
       /\ IF got.exc # "none"
          THEN /\ Except(r, Exc(got.exc, "the response cannot be decoded"))
               /\ UNCHANGED env
          ELSE /\ env' = [env EXCEPT ![r].tailored_data = got.data]
               /\ Goto(r, "generate_pdf")

\* pdf_bytes = generate_pdf_resume(tailored_data, company_name, job_title)
GeneratePdf(r) ==
    /\ pc[r] = "generate_pdf"
    /\ UNCHANGED <<request, probe>>
    /\ LET pdf == generate_pdf_resume(env[r].tailored_data) IN
       /\ log' = [log EXCEPT ![r] =
             Append(@, [op |-> "render", raised |-> pdf.exc # "none",
                        company_name |-> env[r].company_name,
                        job_title |-> env[r].job_title])]
       /\ IF pdf.exc # "none"
          THEN /\ Except(r, Exc(pdf.exc, "the document cannot be rendered"))
               /\ UNCHANGED env
          ELSE /\ env' = [env EXCEPT ![r].pdf_bytes = JArr(pdf.elements)]
               /\ Goto(r, "filename")

\* safe_company, safe_title and filename; re.sub needs a str
MakeFilename(r) ==
    /\ pc[r] = "filename"
    /\ UNCHANGED <<request, log, probe>>
    /\ IF ~IsStr(env[r].company_name) \/ ~IsStr(env[r].job_title)
       THEN /\ Except(r, Exc("TypeError", "expected string or bytes-like object"))
            /\ UNCHANGED env
       ELSE /\ env' = [env EXCEPT ![r].filename =
                 JStr(Filename(env[r].company_name.s, env[r].job_title.s))]
            /\ Goto(r, IF IsVercel(r) THEN "send_response" ELSE "make_response")

\* a slip: the keywords joined with ', ' as the skills are
KeywordsAdded_Spaced(tailored_data) ==
    PyJoin(CommaSpace, DictGet(tailored_data, K_keywords_added, JArr(<<>>)))

\* ','.join(tailored_data.get('keywords_added', []))
KeywordsAdded(tailored_data) ==
    PyJoin(<<",">>, DictGet(tailored_data, K_keywords_added, JArr(<<>>)))

\* netlify: return make_response(200, base64 of the PDF, headers)
MakeResponse(r) ==
    /\ pc[r] = "make_response"
    /\ UNCHANGED <<request, env, log, probe>>
    /\ LET kw == KeywordsAdded(env[r].tailored_data) IN
       IF ~kw.ok
       THEN Except(r, Exc("TypeError", "sequence item: expected str instance"))
       ELSE /\ wfile' = [wfile EXCEPT ![r] =
                 <<StatusLine(200),
                   Header("Content-Type", "application/pdf"),
                   Header("Content-Disposition", env[r].filename.s),
                   Header("X-Keywords-Added", kw.s),
                   Header("Access-Control-Allow-Origin", "*"),
                   Header("Access-Control-Expose-Headers",
                          "Content-Disposition, X-Keywords-Added"),
                   PdfBody(env[r].pdf_bytes.xs)>>]
            /\ pc' = [pc EXCEPT ![r] = "done"]
            /\ UNCHANGED hdrbuf

\* vercel: self.send_response(200); send_header('Content-Type', ...)
SendResponse(r) ==
    /\ pc[r] = "send_response"
    /\ UNCHANGED <<request, env, log, probe, wfile>>
    /\ hdrbuf' = [hdrbuf EXCEPT ![r] =
          @ \o <<StatusLine(200), Header("Content-Type", "application/pdf")>>]
    /\ pc' = [pc EXCEPT ![r] = "send_content_disposition"]

\* vercel: send_header('Content-Disposition', ...), which encodes the
\* header line as latin-1
SendContentDisposition(r) ==
    /\ pc[r] = "send_content_disposition"
    /\ UNCHANGED <<request, env, log, probe>>
    /\ IF ~EncodesLatin1(env[r].filename.s)
       THEN Except(r, Exc("UnicodeEncodeError", "'latin-1' codec can't encode"))
       ELSE /\ hdrbuf' = [hdrbuf EXCEPT ![r] =
                 Append(@, Header("Content-Disposition", env[r].filename.s))]
            /\ pc' = [pc EXCEPT ![r] = "send_content_length"]
            /\ UNCHANGED wfile

\* vercel: send_header('Content-Length', str(len(pdf_bytes)))
SendContentLength(r) ==
    /\ pc[r] = "send_content_length"
    /\ UNCHANGED <<request, env, log, probe, wfile>>
    /\ hdrbuf' = [hdrbuf EXCEPT ![r] =
          Append(@, Header("Content-Length", "len(pdf_bytes)"))]
    /\ pc' = [pc EXCEPT ![r] = "send_keywords"]

\* vercel: send_header('X-Keywords-Added', ','.join(...))
SendKeywords(r) ==
    /\ pc[r] = "send_keywords"
    /\ UNCHANGED <<request, env, log, probe>>
    /\ LET kw == KeywordsAdded(env[r].tailored_data) IN
       IF ~kw.ok
       THEN Except(r, Exc("TypeError", "sequence item: expected str instance"))
       ELSE IF ~EncodesLatin1(kw.s)
       THEN Except(r, Exc("UnicodeEncodeError", "'latin-1' codec can't encode"))
       ELSE /\ hdrbuf' = [hdrbuf EXCEPT ![r] =
                 Append(@, Header("X-Keywords-Added", kw.s))]
            /\ pc' = [pc EXCEPT ![r] = "end_headers"]
            /\ UNCHANGED wfile

\* vercel: self.end_headers() flushes the header buffer
SendEndHeaders(r) ==
    /\ pc[r] = "end_headers"
    /\ UNCHANGED <<request, env, log, probe>>
    /\ wfile' = [wfile EXCEPT ![r] = @ \o hdrbuf[r] \o <<EndHeaders>>]
    /\ hdrbuf' = [hdrbuf EXCEPT ![r] = <<>>]
    /\ pc' = [pc EXCEPT ![r] = "write"]

\* vercel: self.wfile.write(pdf_bytes)
WriteBody(r) ==
    /\ pc[r] = "write"
    /\ UNCHANGED <<request, env, log, probe, hdrbuf>>
    /\ wfile' = [wfile EXCEPT ![r] = Append(@, PdfBody(env[r].pdf_bytes.xs))]
    /\ pc' = [pc EXCEPT ![r] = "done"]

Next ==
    \E r \in Requests :
        \/ Dispatch(r)
        \/ CheckApiKey(r)
        \/ ReadBody(r)
        \/ CheckContentType(r)
        \/ ParseMultipart(r)
        \/ ValidateFields(r)
        \/ ExtractText(r)
        \/ ExtractJobDetailsCall(r)
        \/ ExtractJobDetailsReturn(r)
        \/ TailorResumeCall(r)
        \/ TailorResumeReturn(r)
        \/ GeneratePdf(r)
        \/ MakeFilename(r)
        \/ MakeResponse(r)
        \/ SendResponse(r)
        \/ SendContentDisposition(r)
        \/ SendContentLength(r)
        \/ SendKeywords(r)
        \/ SendEndHeaders(r)
        \/ WriteBody(r)

Spec == Init /\ [][Next]_vars

(***************************************************************************)
(* What is observed of a request                                           *)
(***************************************************************************)

\* the caller sent a non-empty value for the field
Supplied(r, field) == Truthy(FieldGet(request[r], field))

\* the positions of the steps named op in the log of r
Ops(r, op) == {i \in 1..Len(log[r]) : log[r][i].op = op}

\* everything handed to the caller or waiting in the header buffer
Emitted(r) == wfile[r] \o hdrbuf[r]

\* the response as the caller reads it: the emitted items without the
\* blank line that ends the headers
Response(r) == SelectSeq(wfile[r], LAMBDA it : it.k # "end_headers")

Has(items, P(_)) == \E i \in 1..Len(items) : P(items[i])

IsStatus(it) == it.k = "status"
IsSuccessStatus(it) == it.k = "status" /\ it.code = 200
IsPdfType(it) == it = Header("Content-Type", "application/pdf")
IsPdfBody(it) == it.k = "body" /\ it.kind = "pdf"
IsErrorBody(it) == it.k = "body" /\ it.kind = "error"

\* the single structured error payload {"error": message} under a status
IsErrorResponse(w) ==
    /\ Len(w) = 3
    /\ IsStatus(w[1]) /\ w[1].code # 200
    /\ w[2] = Header("Content-Type", "application/json")
    /\ IsErrorBody(w[3])

\* the success response: status 200, headers with the PDF type, the PDF
IsSuccessResponse(w) ==
    /\ Len(w) >= 3
    /\ w[1] = StatusLine(200)
    /\ \A i \in 2..(Len(w) - 1) : w[i].k = "header"
    /\ Has(w, IsPdfType)
    /\ IsPdfBody(w[Len(w)])

\* the request has failed: an error payload was written
Failed(r) == Has(wfile[r], IsErrorBody)

\* the failure UpstreamMalformed: status 500 with the parse-failure message
UpstreamMalformed(r) ==
    /\ IsErrorResponse(Response(r))
    /\ Response(r)[1].code = 500
    /\ Response(r)[3].error.text = "Failed to parse AI response: "

\* the content is not valid JSON once the fence is stripped
NotJson(content) == ~json_loads(StripCodeBlock(content)).ok

EndsWith(s, p) == MatchAt(s, p, Len(s) - Len(p) + 1)

\* the filename carries the safe form of value v in the place of the field
FilenameUses(fn, field, v) ==
    IF field = "company_name"
    THEN StartsWith(fn, ResumePrefix \o SafeName(v) \o <<"_">>)
    ELSE EndsWith(fn, <<"_">> \o SafeName(v) \o PdfSuffix)

(***************************************************************************)
(* C1                                                                      *)
(***************************************************************************)

\* C1: a non-empty company name or job title sent by the caller is the
\* value the handler holds from validation on, the value passed to the
\* tailoring call and to the renderer, and the value the filename (and
\* the Content-Disposition header) is made from, whatever the
\* detail-extraction call answered.
C1_CallerValuesWin ==
    \A r \in DOMAIN pc : \A field \in {"company_name", "job_title"} :
        Supplied(r, field) =>
            /\ env[r][field] \in {Unset, request[r][field]}
            /\ \A i \in Ops(r, "llm_tailor") \cup Ops(r, "render") :
                   log[r][i][field] = request[r][field]
            /\ env[r].filename # Unset =>
                   FilenameUses(env[r].filename.s, field, request[r][field].s)
            /\ \A i \in 1..Len(Emitted(r)) :
                   LET it == Emitted(r)[i] IN
                   (it.k = "header" /\ it.name = "Content-Disposition") =>
                       FilenameUses(it.val, field, request[r][field].s)

\* the detail extraction ran for a missing job title and answered another
\* company than the caller's; the request ended with the PDF
C1_Witness ==
    \E r \in DOMAIN pc :
        /\ Supplied(r, "company_name") /\ ~Supplied(r, "job_title")
        /\ \E i \in Ops(r, "llm_details") : log[r][i].content = D_Bare
        /\ pc[r] = "done"
        /\ IsSuccessResponse(Response(r))

(***************************************************************************)
(* C2                                                                      *)
(***************************************************************************)

\* the place of a step in the order of the stages
StageRank(op) ==
    CASE op = "extract_text" -> 1
      [] op = "llm_details" -> 2
      [] op = "parse_details" -> 3
      [] op = "llm_tailor" -> 4
      [] op = "parse_model" -> 5
      [] op = "render" -> 6

\* C2: the steps of a request occur in the order ExtractText,
\* InferJobDetails (call, then decoding), Tailor, ParseModel, Render, and
\* nothing of the success response is produced before Render returned; no
\* step occurs twice or after a later one; the tailoring call is made
\* only after the detail extraction, when a field was missing, has
\* returned, and with the company name and job title resolved from it.
C2_StagesInOrder ==
    \A r \in DOMAIN pc :
        /\ \A i, j \in 1..Len(log[r]) :
               i < j => StageRank(log[r][i].op) < StageRank(log[r][j].op)
        /\ Has(Emitted(r), IsSuccessStatus) /\ request[r].method = "POST" =>
               /\ log[r] # <<>>
               /\ log[r][Len(log[r])].op = "render"
               /\ ~log[r][Len(log[r])].raised
        /\ \A i \in Ops(r, "llm_tailor") :
               IF Supplied(r, "company_name") /\ Supplied(r, "job_title")
               THEN /\ log[r][i].company_name = request[r].company_name
                    /\ log[r][i].job_title = request[r].job_title
               ELSE /\ i >= 3
                    /\ log[r][i - 2].op = "llm_details" /\ ~log[r][i - 2].raised
                    /\ log[r][i - 1].op = "parse_details" /\ ~log[r][i - 1].raised
                    /\ LET got == extract_job_details(log[r][i - 2].content) IN
                       /\ log[r][i].company_name =
                              IF Supplied(r, "company_name")
                              THEN request[r].company_name ELSE got.company
                       /\ log[r][i].job_title =
                              IF Supplied(r, "job_title")
                              THEN request[r].job_title ELSE got.title

\* a request that went through every stage: the details were inferred,
\* the resume tailored, decoded and rendered, and the PDF sent
C2_Witness ==
    \E r \in DOMAIN pc :
        /\ Len(log[r]) = 6
        /\ pc[r] = "done"
        /\ IsSuccessResponse(Response(r))

(***************************************************************************)
(* C3                                                                      *)
(***************************************************************************)

\* C3: a POST request ends with exactly one response, the success
\* response or the single error payload; a request that fails emits no
\* success status, no PDF content type and no PDF bytes, also when the
\* failure is raised while the headers of the success response are
\* produced.
C3_OneResponseOnly ==
    \A r \in DOMAIN pc :
        request[r].method = "POST" =>
            /\ pc[r] = "done" =>
                   \/ IsSuccessResponse(Response(r))
                   \/ IsErrorResponse(Response(r))
            /\ Failed(r) =>
                   /\ ~Has(wfile[r], IsSuccessStatus)
                   /\ ~Has(wfile[r], IsPdfType)
                   /\ ~Has(wfile[r], IsPdfBody)

(***************************************************************************)
(* C4                                                                      *)
(***************************************************************************)

\* C4: when the tailoring call returned a text that is not valid JSON
\* once the fence is stripped, the renderer is never invoked, nothing of
\* a success response is emitted, and the request ends with the failure
\* UpstreamMalformed under status 500.
C4_TailorNotJsonFails ==
    \A r \in DOMAIN pc :
        \A i \in Ops(r, "llm_tailor") :
            ~log[r][i].raised /\ NotJson(log[r][i].content) =>
                /\ Ops(r, "render") = {}
                /\ env[r].pdf_bytes = Unset
                /\ ~Has(Emitted(r), IsSuccessStatus)
                /\ ~Has(Emitted(r), IsPdfBody)
                /\ pc[r] \in {"parse_tailored", "done"}
                /\ pc[r] = "done" => UpstreamMalformed(r)

\* the tailoring call answered with a text that is no JSON and the
\* request has ended
C4_Witness ==
    \E r \in DOMAIN pc :
        /\ \E i \in Ops(r, "llm_tailor") : log[r][i].content = T_NotJson
        /\ pc[r] = "done"

(***************************************************************************)
(* C5                                                                      *)
(***************************************************************************)

\* C5: when the detail-extraction call returned a text that is not valid
\* JSON once the fence is stripped, the tailoring call and the renderer
\* never happen, nothing of a success response is emitted, and the
\* request ends with the failure UpstreamMalformed under status 500.
C5_DetailsNotJsonFails ==
    \A r \in DOMAIN pc :
        \A i \in Ops(r, "llm_details") :
            ~log[r][i].raised /\ NotJson(log[r][i].content) =>
                /\ Ops(r, "llm_tailor") = {}
                /\ Ops(r, "render") = {}
                /\ ~Has(Emitted(r), IsSuccessStatus)
                /\ ~Has(Emitted(r), IsPdfBody)
                /\ pc[r] \in {"parse_job_details", "done"}
                /\ pc[r] = "done" => UpstreamMalformed(r)

\* the detail-extraction call answered with a text that is no JSON and
\* the request has ended
C5_Witness ==
    \E r \in DOMAIN pc :
        /\ \E i \in Ops(r, "llm_details") : log[r][i].content = D_NotJson
        /\ pc[r] = "done"

(***************************************************************************)
(* C6                                                                      *)
(***************************************************************************)

\* C6: the detail-extraction call is made at most once, only for a
\* request that passed validation and text extraction and whose caller
\* left the company name or the job title absent or empty; and for every
\* such request it is the step that follows text extraction.
C6_DetailsIffMissing ==
    \A r \in DOMAIN pc :
        LET missing == ~Supplied(r, "company_name") \/ ~Supplied(r, "job_title") IN
        /\ Cardinality(Ops(r, "llm_details")) <= 1
        /\ Ops(r, "llm_details") # {} =>
               /\ missing
               /\ env[r].resume_text # Unset
        /\ (env[r].resume_text # Unset /\ missing) =>
               \/ pc[r] = "extract_job_details"
               \/ Ops(r, "llm_details") = {2}
        /\ (env[r].resume_text # Unset /\ ~missing) =>
               pc[r] # "extract_job_details"

\* a request with the company name but no job title, whose details were
\* inferred, and one with both, tailored without the call
C6_Witness ==
    \E r \in DOMAIN pc :
        /\ Supplied(r, "company_name") /\ ~Supplied(r, "job_title")
        /\ Ops(r, "llm_details") = {2}
        /\ Ops(r, "llm_tailor") # {}

(***************************************************************************)
(* C7                                                                      *)
(***************************************************************************)

\* C7: text extraction, the detail-extraction call, the tailoring call
\* and the renderer are each attempted at most once per request; a step
\* that failed is the last step of the request, which is then ended with
\* its error payload.
C7_NoRetry ==
    \A r \in DOMAIN pc :
        /\ \A op \in {"extract_text", "llm_details", "llm_tailor", "render"} :
               Cardinality(Ops(r, op)) <= 1
        /\ \A i \in 1..Len(log[r]) :
               (log[r][i].raised
                \/ (log[r][i].op = "extract_text" /\ log[r][i].text = <<>>)) =>
                   /\ i = Len(log[r])
                   /\ pc[r] = "done"
                   /\ Failed(r)
        /\ Failed(r) => pc[r] = "done"

\* the tailoring call itself failed, after the details were inferred
C7_Witness ==
    \E r \in DOMAIN pc :
        /\ \E i \in Ops(r, "llm_tailor") : log[r][i].raised
        /\ Ops(r, "llm_details") # {}
        /\ pc[r] = "done"

(***************************************************************************)
(* C8                                                                      *)
(***************************************************************************)

\* the messages of the failures caused by the caller's input
CallerInputMessages ==
    {"Expected multipart/form-data",
     "No boundary found in Content-Type header",
     "Resume file is required",
     "Job description is required"}

\* the messages of the upstream and internal failures
UpstreamMessages ==
    {"the LLM call failed",
     "the response cannot be decoded",
     "the document cannot be rendered"}

\* the message of an error payload: the text, or str(e) of the exception
Message(body) == IF body.error.detail = "" THEN body.error.text ELSE body.error.detail

\* C8: a failure caused by the caller's input (not multipart/form-data,
\* no usable boundary, no resume file, no job description) is reported
\* with status 400, an upstream or internal failure with status 500, and
\* no failure of a POST request with any other status.
C8_StatusByCause ==
    \A r \in DOMAIN pc :
        (request[r].method = "POST" /\ Failed(r)) =>
            LET w == Response(r)
                body == w[Len(w)]
                code == w[1].code
            IN
            /\ code \in {400, 500}
            /\ Message(body) \in CallerInputMessages => code = 400
            /\ Message(body) \in UpstreamMessages => code = 500

(***************************************************************************)
(* C9                                                                      *)
(***************************************************************************)

\* the failure InvalidResume: the error payload that names the resume as
\* the cause, under the status of a caller input problem
InvalidResume(r) ==
    /\ IsErrorResponse(Response(r))
    /\ Response(r)[1].code = 400
    /\ Response(r)[3].error.text = "Could not extract text from resume PDF"

\* C9: when text extraction raises or yields an empty text, the request
\* ends in the one failure InvalidResume, whichever of the two happened;
\* neither LLM call is made and nothing is rendered.
C9_ExtractionFailureIsInvalidResume ==
    \A r \in DOMAIN pc :
        \A i \in Ops(r, "extract_text") :
            (log[r][i].raised \/ log[r][i].text = <<>>) =>
                /\ InvalidResume(r)
                /\ Ops(r, "llm_details") = {} /\ Ops(r, "llm_tailor") = {}
                /\ Ops(r, "render") = {}

(***************************************************************************)
(* Fence-stripping on its own: a JSON text is wrapped in a fenced block    *)
(* as an LLM does, and the wrapped and the bare text are both decoded as   *)
(* tailor_resume and extract_job_details decode a response.                *)
(***************************************************************************)

\* the longest JSON text drawn
MaxJsonLen == 5

FenceAlphabet == {Backtick, "\"", "j", "{", "}"}

\* every text over the alphabet up to the bound
FenceTexts == UNION {[1..n -> FenceAlphabet] : n \in 0..MaxJsonLen}

\* the JSON texts among them
FenceJsonTexts == {s \in FenceTexts : json_loads(s).ok}

InitFence ==
    /\ request = <<>> /\ pc = <<>> /\ env = <<>>
    /\ log = <<>> /\ hdrbuf = <<>> /\ wfile = <<>>
    /\ \E J \in FenceJsonTexts, tag \in {<<>>, JsonTag},
          nl \in {<<>>, <<"\n">>}, ws \in {<<>>, <<" ">>, <<"\n">>} :
         probe = [op |-> "fence", stage |-> "json", J |-> J, tag |-> tag,
                  nl |-> nl, ws |-> ws, content |-> <<>>,
                  bare |-> JErr, fenced |-> JErr]

\* the LLM wraps the JSON text: optional whitespace, the fence, the
\* optional tag, the text on its own line or not, the fence
FenceWrap ==
    /\ probe.op = "fence" /\ probe.stage = "json"
    /\ probe' = [probe EXCEPT
          !.stage = "wrapped",
          !.content = probe.ws \o Fence \o probe.tag \o probe.nl \o probe.J
                      \o probe.nl \o Fence \o probe.ws]
    /\ UNCHANGED <<request, pc, env, log, hdrbuf, wfile>>

\* response_text is stripped of the fence and decoded, for the bare and
\* for the wrapped text
FenceDecode ==
    /\ probe.op = "fence" /\ probe.stage = "wrapped"
    /\ probe' = [probe EXCEPT
          !.stage = "decoded",
          !.bare = json_loads(StripCodeBlock(probe.J)),
          !.fenced = json_loads(StripCodeBlock(probe.content))]
    /\ UNCHANGED <<request, pc, env, log, hdrbuf, wfile>>

NextFence == FenceWrap \/ FenceDecode

SpecFence == InitFence /\ [][NextFence]_vars

(***************************************************************************)
(* C10                                                                     *)
(***************************************************************************)

\* C10: a JSON text wrapped in a fenced block, with or without the json
\* tag and with whitespace around it, decodes to the value the bare text
\* decodes to, also when the text holds a run of three backticks inside a
\* string.
C10_FenceTransparent ==
    (probe.op = "fence" /\ probe.stage = "decoded") =>
        /\ probe.bare.ok
        /\ probe.fenced.ok
        /\ probe.fenced.v = probe.bare.v

(***************************************************************************)
(* The filename on its own: a company name and a job title are drawn, the  *)
(* two safe names are derived and the filename is formatted from them.     *)
(***************************************************************************)

\* the longest company name drawn
MaxNameLen == 3

\* the longest job title drawn
MaxTitleLen == 1

NameAlphabet == {"a", "7", " ", "\t", "_", "-", "&", "U+4E2D"}

NameTexts(n) == UNION {[1..k -> NameAlphabet] : k \in 0..n}

InitSafe ==
    /\ request = <<>> /\ pc = <<>> /\ env = <<>>
    /\ log = <<>> /\ hdrbuf = <<>> /\ wfile = <<>>
    /\ \E c \in NameTexts(MaxNameLen), t \in NameTexts(MaxTitleLen) :
         probe = [op |-> "safe", stage |-> "input",
                  company_name |-> c, job_title |-> t,
                  safe_company |-> <<>>, safe_title |-> <<>>,
                  filename |-> <<>>]

\* safe_company = re.sub(...).strip().replace(' ', '_'), and safe_title
SafeApply ==
    /\ probe.op = "safe" /\ probe.stage = "input"
    /\ probe' = [probe EXCEPT
          !.stage = "safe",
          !.safe_company = SafeName(probe.company_name),
          !.safe_title = SafeName(probe.job_title)]
    /\ UNCHANGED <<request, pc, env, log, hdrbuf, wfile>>

\* filename = f"Resume_{safe_company}_{safe_title}.pdf"
SafeFormat ==
    /\ probe.op = "safe" /\ probe.stage = "safe"
    /\ probe' = [probe EXCEPT
          !.stage = "filename",
          !.filename = Filename(probe.company_name, probe.job_title)]
    /\ UNCHANGED <<request, pc, env, log, hdrbuf, wfile>>

NextSafe == SafeApply \/ SafeFormat

SpecSafe == InitSafe /\ [][NextSafe]_vars

(***************************************************************************)
(* C11                                                                     *)
(***************************************************************************)

\* the characters SafeX keeps: letters, digits, underscore, hyphen and
\* whitespace
KeepSafe(s) == SelectSeq(s, LAMBDA c : c \in {"a", "7", "_", "-", "U+4E2D"} \/ IsSpace(c))

\* each maximal run of whitespace replaced by one underscore
RECURSIVE CollapseRuns(_)
CollapseRuns(s) ==
    IF s = <<>> THEN <<>>
    ELSE IF IsSpace(Head(s))
    THEN <<"_">> \o CollapseRuns(LStrip(s))
    ELSE <<Head(s)>> \o CollapseRuns(Tail(s))

\* C11: the safe name of X is X with the characters other than letters,
\* digits, underscore, hyphen and whitespace removed, trimmed, and each
\* maximal run of whitespace inside it replaced by exactly one underscore.
C11_SafeNameCollapsesRuns ==
    (probe.op = "safe" /\ probe.stage # "input") =>
        /\ probe.safe_company = CollapseRuns(Strip(KeepSafe(probe.company_name)))
        /\ probe.safe_title = CollapseRuns(Strip(KeepSafe(probe.job_title)))

(***************************************************************************)
(* C12                                                                     *)
(***************************************************************************)

\* [A-Za-z0-9_-]
FilenameChars ==
    {"a", "b", "c", "d", "e", "f", "g", "h", "i", "j", "k", "l", "m", "n",
     "o", "p", "q", "r", "s", "t", "u", "v", "w", "x", "y", "z",
     "A", "B", "C", "D", "E", "F", "G", "H", "I", "J", "K", "L", "M", "N",
     "O", "P", "Q", "R", "S", "T", "U", "V", "W", "X", "Y", "Z",
     "0", "1", "2", "3", "4", "5", "6", "7", "8", "9", "_", "-"}

\* C12: between the prefix Resume_ and the suffix .pdf the filename holds
\* only characters of [A-Za-z0-9_-]: no whitespace, quote, path separator
\* or non-ASCII character of the inputs survives.
C12_FilenameCharsSafe ==
    (probe.op = "safe" /\ probe.stage = "filename") =>
        LET fn == probe.filename
            mid == SubSeq(fn, Len(ResumePrefix) + 1, Len(fn) - Len(PdfSuffix))
        IN
        /\ StartsWith(fn, ResumePrefix)
        /\ EndsWith(fn, PdfSuffix)
        /\ \A i \in 1..Len(mid) : mid[i] \in FilenameChars

(***************************************************************************)
(* The renderer on its own: a document is drawn, and one of the copies of  *)
(* generate_pdf_resume builds its flowables.                               *)
(***************************************************************************)

S_Plain ==
    <<"A", "l">>

S_Amp ==
    <<"R", "&", "D">>

S_Mail ==
    <<"a", "@", "b", ".", "i", "o">>

S_Url ==
    <<"h", "t", "t", "p", "s", ":", "/", "/", "x", ".", "i", "o">>

S_Bold ==
    <<"*", "*", "x", "*", "*", " ", "<", "y">>

S_Markup ==
    <<"d", "<", "e">>

S_Go ==
    <<"g", "o">>

S_Py ==
    <<"p", "y">>

\* a key with its value; the value NoField stands for a key that is left out
Pair(k, v) == [k |-> k, v |-> v]

\* the JSON object of the pairs whose key is not left out
MkObj(ps) == JObj(SelectSeq(ps, LAMBDA p : p.v # NoField))

NameChoices == {NoField, JNull, JStr(<<>>), JStr(S_Amp)}

ContactChoices ==
    {NoField, JNull, JObj(<<>>),
     MkObj(<<Pair(Key.email, JStr(S_Mail)), Pair(Key.phone, JNull),
             Pair(Key.linkedin, JStr(S_Url)), Pair(Key.location, JStr(<<>>))>>)}

EducationChoices ==
    {NoField, JArr(<<>>),
     JArr(<<MkObj(<<Pair(Key.institution, JStr(S_Amp)),
                    Pair(Key.degree, JStr(S_Plain)),
                    Pair(Key.gpa, JStr(S_Go))>>)>>),
     JArr(<<MkObj(<<Pair(Key.degree, JNull),
                    Pair(Key.graduation, JStr(<<>>))>>)>>)}

ExperienceChoices ==
    {NoField, JArr(<<>>),
     JArr(<<MkObj(<<Pair(Key.company, JStr(S_Plain)),
                    Pair(Key.location, JStr(S_Go)),
                    Pair(Key.title, JStr(S_Py)),
                    Pair(Key.bullets, JArr(<<JStr(S_Bold), JStr(S_Go)>>))>>)>>),
     JArr(<<MkObj(<<Pair(Key.company, JStr(S_Plain)),
                    Pair(Key.location, JNull)>>)>>)}

ProjectChoices ==
    {NoField, JArr(<<>>),
     JArr(<<MkObj(<<Pair(K_name, JStr(S_Plain)),
                    Pair(Key.description, JStr(S_Markup)),
                    Pair(Key.technologies, JStr(S_Py)),
                    Pair(Key.bullets, JArr(<<JStr(S_Go)>>))>>)>>)}

SkillsChoices ==
    {NoField, JObj(<<>>),
     MkObj(<<Pair(Key.technical, JArr(<<>>)), Pair(Key.tools, JNull)>>),
     MkObj(<<Pair(Key.technical, JArr(<<JStr(S_Go), JStr(S_Py)>>)),
             Pair(Key.programming_languages, JArr(<<JStr(S_Py)>>))>>)}

CertificationChoices == {NoField, JArr(<<>>), JArr(<<JStr(S_Amp)>>)}

\* the document with the seven top-level keys
Document(name, contact, education, experience, projects, skills, certs) ==
    MkObj(<<Pair(K_name, name), Pair(K_contact, contact),
            Pair(Key.education, education), Pair(Key.experience, experience),
            Pair(Key.projects, projects), Pair(Key.skills, skills),
            Pair(Key.certifications, certs)>>)

\* the documents whose fields are each a value of the right type, empty,
\* null or left out
ValidDocuments ==
    {Document(n, c, ed, ex, pr, sk, ce) :
        n \in NameChoices, c \in ContactChoices, ed \in EducationChoices,
        ex \in ExperienceChoices, pr \in ProjectChoices, sk \in SkillsChoices,
        ce \in CertificationChoices}

\* a document with one leaf of the wrong type, and the same document with
\* that leaf at its default
WrongTyped(key, wrong, default) ==
    [doc |-> MkObj(<<Pair(K_name, JStr(S_Plain)), Pair(key, wrong)>>),
     defaulted |-> MkObj(<<Pair(K_name, JStr(S_Plain)), Pair(key, default)>>)]

WrongTypedDocuments ==
    {WrongTyped(Key.experience,
        JArr(<<MkObj(<<Pair(Key.company, JStr(S_Plain)),
                       Pair(Key.bullets, JStr(S_Go))>>)>>),
        JArr(<<MkObj(<<Pair(Key.company, JStr(S_Plain)),
                       Pair(Key.bullets, JArr(<<>>))>>)>>)),
     WrongTyped(Key.experience,
        JArr(<<MkObj(<<Pair(Key.company, JStr(S_Plain)),
                       Pair(Key.bullets, JArr(<<JBool(TRUE)>>))>>)>>),
        JArr(<<MkObj(<<Pair(Key.company, JStr(S_Plain)),
                       Pair(Key.bullets, JArr(<<JStr(<<>>)>>))>>)>>)),
     WrongTyped(Key.skills,
        MkObj(<<Pair(Key.technical, JStr(S_Go)),
                Pair(Key.tools, JArr(<<JStr(S_Py)>>))>>),
        MkObj(<<Pair(Key.technical, JArr(<<>>)),
                Pair(Key.tools, JArr(<<JStr(S_Py)>>))>>)),
     WrongTyped(Key.education, JArr(<<JStr(S_Plain)>>), JArr(<<>>)),
     WrongTyped(Key.projects, JArr(<<JNull>>), JArr(<<>>)),
     WrongTyped(K_contact, JStr(S_Mail), NoField),
     WrongTyped(Key.skills, JArr(<<JStr(S_Go)>>), NoField),
     WrongTyped(Key.certifications, JStr(S_Go), JArr(<<>>)),
     WrongTyped(K_name, JArr(<<>>), JStr(<<>>))}

InitRender ==
    /\ request = <<>> /\ pc = <<>> /\ env = <<>>
    /\ log = <<>> /\ hdrbuf = <<>> /\ wfile = <<>>
    /\ \/ \E d \in ValidDocuments :
            probe = [op |-> "render", stage |-> "document", kind |-> "valid",
                     doc |-> d, defaulted |-> d, copy |-> "none",
                     result |-> Done(<<>>)]
       \/ \E w \in WrongTypedDocuments :
            probe = [op |-> "render", stage |-> "document",
                     kind |-> "wrong_typed",
                     doc |-> w.doc, defaulted |-> w.defaulted, copy |-> "none",
                     result |-> Done(<<>>)]

\* generate_pdf_resume of api/generate.py (and of its netlify copy)
RenderApi ==
    /\ probe.op = "render" /\ probe.stage = "document"
    /\ probe' = [probe EXCEPT
          !.stage = "rendered", !.copy = "api",
          !.result = generate_pdf_resume(probe.doc)]
    /\ UNCHANGED <<request, pc, env, log, hdrbuf, wfile>>

\* generate_pdf_resume of pdf_generator.py
RenderStandalone ==
    /\ probe.op = "render" /\ probe.stage = "document"
    /\ probe' = [probe EXCEPT
          !.stage = "rendered", !.copy = "pdf_generator",
          !.result = pdf_generator_generate_pdf_resume(probe.doc)]
    /\ UNCHANGED <<request, pc, env, log, hdrbuf, wfile>>

NextRender == RenderApi \/ RenderStandalone

SpecRender == InitRender /\ [][NextRender]_vars

(***************************************************************************)
(* C13                                                                     *)
(***************************************************************************)

\* a render that has run to its end without raising
Rendered == probe.op = "render" /\ probe.stage = "rendered" /\ probe.result.exc = "none"

\* the texts handed to the rendering engine: each paragraph's text and
\* both cells of each row
EngineTexts ==
    LET es == probe.result.elements IN
    {es[i].text : i \in {j \in 1..Len(es) : es[j].e \in {"Paragraph", "Table"}}}
        \cup {es[i].right : i \in {j \in 1..Len(es) : es[j].e = "Table"}}

\* the tags the renderer's own templates write
TemplateTags ==
    {BOpen, BClose, IOpen, IClose, <<"<", "a", " ", "h", "r", "e", "f", "=">>,
     <<"<", "/", "a", ">">>}

\* every & of s starts an entity and every < of s starts a tag of the
\* templates or of the bold replacement
Escaped(s) ==
    \A i \in 1..Len(s) :
        /\ s[i] = "&" =>
              \/ MatchAt(s, AmpEntity, i)
              \/ MatchAt(s, LtEntity, i)
              \/ MatchAt(s, GtEntity, i)
        /\ s[i] = "<" => \E t \in TemplateTags : MatchAt(s, t, i)

\* C13: every string of the document that reaches a paragraph of the
\* rendering engine has passed through the Markup Normalizer: no text
\* handed to the engine holds an unescaped & or < of the input.
C13_EngineTextsEscaped ==
    Rendered => \A s \in EngineTexts : Escaped(s)

(***************************************************************************)
(* C14                                                                     *)
(***************************************************************************)

\* C14: rendering a structurally valid document never raises: whatever
\* optional fields are present, left out, empty or null, the render runs
\* to its end and returns the document.
C14_ValidDocumentRenders ==
    (probe.op = "render" /\ probe.stage = "rendered" /\ probe.kind = "valid")
        => probe.result.exc = "none"

(***************************************************************************)
(* C15                                                                     *)
(***************************************************************************)

\* the content is valid JSON once the fence is stripped, and its top-level
\* value is not an object
NotAnObject(content) ==
    LET data == json_loads(StripCodeBlock(content)) IN
    data.ok /\ ~IsObj(data.v)

\* C15: when the tailoring call returned valid JSON whose top-level value
\* is not an object, the request fails as it does for an unparseable
\* response (UpstreamMalformed under status 500), the renderer is never
\* invoked and no PDF is produced.
C15_NonObjectIsMalformed ==
    \A r \in DOMAIN pc :
        \A i \in Ops(r, "llm_tailor") :
            ~log[r][i].raised /\ NotAnObject(log[r][i].content) =>
                /\ Ops(r, "render") = {}
                /\ env[r].pdf_bytes = Unset
                /\ ~Has(Emitted(r), IsPdfBody)
                /\ pc[r] = "done" => UpstreamMalformed(r)

(***************************************************************************)
(* C16                                                                     *)
(***************************************************************************)

\* C16: a leaf of the wrong type is read as its default: the render runs
\* to its end, and its output is the output for the same document with
\* that leaf at its default (no line per character or per key).
C16_WrongTypedLeafDefaults ==
    (probe.op = "render" /\ probe.stage = "rendered"
        /\ probe.kind = "wrong_typed") =>
        /\ probe.result.exc = "none"
        /\ probe.result =
              IF probe.copy = "api"
              THEN generate_pdf_resume(probe.defaulted)
              ELSE pdf_generator_generate_pdf_resume(probe.defaulted)

(***************************************************************************)
(* C17                                                                     *)
(***************************************************************************)

\* the place of a section title in the fixed order; 0 for any other text
SectionRank(title) ==
    CASE title = H_EDUCATION -> 1
      [] title = H_EXPERIENCE -> 2
      [] title = H_PROJECTS -> 3
      [] title = H_SKILLS -> 4
      [] title = H_CERTIFICATIONS -> 5
      [] OTHER -> 0

\* the positions of the section headings in the output
HeadingPositions ==
    LET es == probe.result.elements IN
    {i \in 1..Len(es) : es[i].e = "Paragraph" /\ es[i].style = "section"}

\* C17: the section headings of the output follow the order EDUCATION,
\* EXPERIENCE, PROJECTS, SKILLS, CERTIFICATIONS, each at most once and each
\* followed at once by a horizontal rule; the name paragraph comes first,
\* the contact line, when there is one, second, and both before every
\* section.
C17_SectionsInFixedOrder ==
    Rendered =>
        LET es == probe.result.elements IN
        /\ \A i \in HeadingPositions :
              /\ SectionRank(es[i].text) > 0
              /\ i < Len(es) /\ es[i + 1].e = "HRFlowable"
              /\ i > 1
        /\ \A i, j \in HeadingPositions :
              i < j => SectionRank(es[i].text) < SectionRank(es[j].text)
        /\ Len(es) >= 1 /\ es[1].e = "Paragraph" /\ es[1].style = "name"
        /\ \A i \in 1..Len(es) :
              /\ es[i].style = "name" => i = 1
              /\ es[i].style = "contact" => i = 2

\* a render that wrote the contact line and all five sections
C17_Witness ==
    /\ Rendered
    /\ Cardinality(HeadingPositions) = 5
    /\ probe.result.elements[2].style = "contact"

(***************************************************************************)
(* C18                                                                     *)
(***************************************************************************)

\* the number of entries of a list of the document; 0 when it is left out
ListLen(key) ==
    LET v == DictGet(probe.doc, key, JArr(<<>>)) IN
    IF IsArr(v) THEN Len(v.xs) ELSE 0

\* the number of elements of the output of one kind
CountOf(kind) ==
    LET es == probe.result.elements IN
    Cardinality({i \in 1..Len(es) : es[i].e = kind})

\* the output holds the heading of this title
HasHeading(title) ==
    \E i \in HeadingPositions : probe.result.elements[i].text = title

\* C18: in a document whose lists are lists, a list section (education,
\* experience, projects, certifications) whose list is empty or left out
\* adds nothing to the output: no heading,
\* no rule, no entry, no spacer.  The rules are as many as the headings,
\* the spacers as many as the entries written plus one for each of the
\* skills and certifications sections written, and a document with
\* nothing but its name renders to the name paragraph alone.
C18_EmptyListSectionOmitted ==
    (Rendered /\ probe.kind = "valid") =>
        /\ ListLen(Key.education) = 0 => ~HasHeading(H_EDUCATION)
        /\ ListLen(Key.experience) = 0 => ~HasHeading(H_EXPERIENCE)
        /\ ListLen(Key.projects) = 0 => ~HasHeading(H_PROJECTS)
        /\ ListLen(Key.certifications) = 0 => ~HasHeading(H_CERTIFICATIONS)
        /\ CountOf("HRFlowable") = Cardinality(HeadingPositions)
        /\ CountOf("Spacer") =
              ListLen(Key.education) + ListLen(Key.experience)
              + ListLen(Key.projects)
              + (IF HasHeading(H_SKILLS) THEN 1 ELSE 0)
              + (IF HasHeading(H_CERTIFICATIONS) THEN 1 ELSE 0)
        /\ (/\ ListLen(Key.education) = 0 /\ ListLen(Key.experience) = 0
            /\ ListLen(Key.projects) = 0 /\ ListLen(Key.certifications) = 0
            /\ ~Truthy(DictGet(probe.doc, K_contact, JNull))
            /\ ~Truthy(DictGet(probe.doc, Key.skills, JNull)))
              => Len(probe.result.elements) = 1

\* a render of a document with an empty education list and an empty
\* certifications list that wrote another section
C18_Witness ==
    /\ Rendered
    /\ DictGet(probe.doc, Key.education, JNull) = JArr(<<>>)
    /\ DictGet(probe.doc, Key.certifications, JNull) = JArr(<<>>)
    /\ HasHeading(H_EXPERIENCE)

(***************************************************************************)
(* C19                                                                     *)
(***************************************************************************)

\* the skills groups of the document that hold at least one value, as the
\* labels their lines carry, in the order of the lines
NonEmptyGroupLabels ==
    LET skills == DictGet(probe.doc, Key.skills, JNull)
        full(key) == /\ IsObj(skills)
                     /\ IsArr(DictGet(skills, key, JNull))
                     /\ DictGet(skills, key, JNull).xs # <<>>
    IN
    (IF full(Key.technical) THEN <<TechnicalLabel>> ELSE <<>>)
        \o (IF full(Key.tools) THEN <<ToolsLabel>> ELSE <<>>)
        \o (IF full(Key.programming_languages) THEN <<LanguagesLabel>> ELSE <<>>)

\* the labels of the labelled skill lines of the output, in their order
SkillLineLabels ==
    LET es == probe.result.elements
        label(e) ==
            IF e.e # "Paragraph" \/ e.style # "bullet" THEN <<>>
            ELSE IF StartsWith(e.text, TechnicalLabel) THEN <<TechnicalLabel>>
            ELSE IF StartsWith(e.text, ToolsLabel) THEN <<ToolsLabel>>
            ELSE IF StartsWith(e.text, LanguagesLabel) THEN <<LanguagesLabel>>
            ELSE <<>>
        labels[i \in 0..Len(es)] ==
            IF i = 0 THEN <<>> ELSE labels[i - 1] \o label(es[i])
    IN labels[Len(es)]

\* C19: in a document whose skills block is an object of lists, the
\* SKILLS heading and its rule are written if and only if one of the
\* three groups holds a value; when written, there is one labelled line
\* per group that holds a value, in the order technical, tools,
\* programming languages.
C19_SkillsIffGroupNonEmpty ==
    (Rendered /\ probe.kind = "valid") =>
        /\ HasHeading(H_SKILLS) <=> NonEmptyGroupLabels # <<>>
        /\ SkillLineLabels = NonEmptyGroupLabels

(***************************************************************************)
(* The Markup Normalizer on its own: a text, or null, is drawn and         *)
(* process_bold_markers is applied to it.                                  *)
(***************************************************************************)

\* the longest text drawn
MaxTextLen == 5

TextAlphabet == {"&", "<", ">", "*", "a", "\n"}

Texts == UNION {[1..n -> TextAlphabet] : n \in 0..MaxTextLen}

InitNormalize ==
    /\ request = <<>> /\ pc = <<>> /\ env = <<>>
    /\ log = <<>> /\ hdrbuf = <<>> /\ wfile = <<>>
    /\ \E text \in {JStr(s) : s \in Texts} \cup {JNull} :
         probe = [op |-> "normalize", stage |-> "text", text |-> text,
                  escaped |-> <<>>, out |-> [exc |-> "none", s |-> <<>>]]

NormalizeApply ==
    /\ probe.op = "normalize" /\ probe.stage = "text"
    /\ probe' = [probe EXCEPT
          !.stage = "normalized",
          !.escaped = IF Truthy(probe.text) /\ IsStr(probe.text)
                      THEN Escape(probe.text.s) ELSE <<>>,
          !.out = process_bold_markers(probe.text)]
    /\ UNCHANGED <<request, pc, env, log, hdrbuf, wfile>>

NextNormalize == NormalizeApply

SpecNormalize == InitNormalize /\ [][NextNormalize]_vars

(***************************************************************************)
(* C20                                                                     *)
(***************************************************************************)

\* C20: in the normalized text every & is the first character of one of
\* the entities &amp; &lt; &gt;, and every < and every > belongs to a <b>
\* or a </b> of the bold replacement.
C20_OnlyOwnMarkup ==
    (probe.op = "normalize" /\ probe.stage = "normalized") =>
        LET s == probe.out.s IN
        /\ probe.out.exc = "none"
        /\ \A i \in 1..Len(s) :
              /\ s[i] = "&" =>
                    \/ MatchAt(s, <<"&", "a", "m", "p", ";">>, i)
                    \/ MatchAt(s, <<"&", "l", "t", ";">>, i)
                    \/ MatchAt(s, <<"&", "g", "t", ";">>, i)
              /\ s[i] = "<" =>
                    \/ MatchAt(s, <<"<", "b", ">">>, i)
                    \/ MatchAt(s, <<"<", "/", "b", ">">>, i)
              /\ s[i] = ">" =>
                    \/ MatchAt(s, <<"<", "b", ">">>, i - 2)
                    \/ MatchAt(s, <<"<", "/", "b", ">">>, i - 3)

\* a text with an &, a < or a > and a bold span has been normalized
C20_Witness ==
    /\ probe.op = "normalize" /\ probe.stage = "normalized"
    /\ IsStr(probe.text)
    /\ \E i \in 1..Len(probe.text.s) : probe.text.s[i] \in {"&", "<", ">"}
    /\ Contains(probe.out.s, <<"<", "b", ">">>)

(***************************************************************************)
(* C21                                                                     *)
(***************************************************************************)

\* the object d without the key k
WithoutKey(d, k) == JObj(SelectSeq(d.ps, LAMBDA p : p.k # k))

\* the values of the headers of this name in a response
HeaderValues(w, name) ==
    {w[i].val : i \in {j \in 1..Len(w) : w[j].k = "header" /\ w[j].name = name}}

\* the keywords of a tailoring response, each followed by a comma but the
\* last
RECURSIVE CommaJoined(_)
CommaJoined(xs) ==
    IF xs = <<>> THEN <<>>
    ELSE IF Len(xs) = 1 THEN xs[1].s
    ELSE xs[1].s \o <<",">> \o CommaJoined(Tail(xs))

\* C21: on success the rendered elements are those of the tailoring
\* response without its keywords_added, and the metadata field carries
\* exactly its keywords joined with commas in the order supplied, empty
\* when the list is left out.
C21_KeywordsOnlyInMetadata ==
    \A r \in DOMAIN pc :
        (pc[r] = "done" /\ IsSuccessResponse(Response(r))) =>
            LET data == env[r].tailored_data
                kws == DictGet(data, K_keywords_added, JArr(<<>>))
                w == Response(r)
            IN
            /\ IsArr(kws)
            /\ HeaderValues(w, "X-Keywords-Added") = {CommaJoined(kws.xs)}
            /\ w[Len(w)].elements =
                  generate_pdf_resume(WithoutKey(data, K_keywords_added)).elements

\* a request has succeeded with the two keywords sql and go in its
\* metadata field
C21_Witness ==
    \E r \in DOMAIN pc :
        /\ pc[r] = "done" /\ IsSuccessResponse(Response(r))
        /\ HeaderValues(Response(r), "X-Keywords-Added")
              = {<<"s", "q", "l", ",", "g", "o">>}

(***************************************************************************)
(* The renderer called more than once: a document is rendered alone, and   *)
(* again after a call for another document, with other names.              *)
(***************************************************************************)

\* the documents drawn here
PureDocuments ==
    {Document(n, NoField, NoField, ex, NoField, sk, NoField) :
        n \in NameChoices, ex \in ExperienceChoices, sk \in SkillsChoices}

\* the company names and job titles handed to the calls
PureCompanies == {CallerCompany, CallerCompanyCJK}
PureTitles == {CallerTitle, <<>>}

\* the documents of the call that came before
EarlierDocuments ==
    {Document(n, NoField, NoField, NoField, NoField, sk, NoField) :
        n \in NameChoices, sk \in SkillsChoices}

InitPure ==
    /\ request = <<>> /\ pc = <<>> /\ env = <<>>
    /\ log = <<>> /\ hdrbuf = <<>> /\ wfile = <<>>
    /\ \E d \in PureDocuments, e \in EarlierDocuments :
         probe = [op |-> "pure", stage |-> "document", doc |-> d,
                  other |-> e, company_name |-> <<>>, job_title |-> <<>>,
                  alone |-> Done(<<>>), earlier |-> Done(<<>>),
                  again |-> Done(<<>>)]

\* the first call of a process, for the document
RenderAlone ==
    /\ probe.op = "pure" /\ probe.stage = "document"
    /\ \E c \in PureCompanies, t \in PureTitles :
         probe' = [probe EXCEPT
            !.stage = "alone", !.company_name = c, !.job_title = t,
            !.alone = generate_pdf_resume_call(Done(<<>>), probe.doc, c, t)]
    /\ UNCHANGED <<request, pc, env, log, hdrbuf, wfile>>

\* the first call of another process, for the other document
RenderEarlier ==
    /\ probe.op = "pure" /\ probe.stage = "alone"
    /\ \E c \in PureCompanies, t \in PureTitles :
         probe' = [probe EXCEPT
            !.stage = "earlier", !.company_name = c, !.job_title = t,
            !.earlier = generate_pdf_resume_call(Done(<<>>), probe.other, c, t)]
    /\ UNCHANGED <<request, pc, env, log, hdrbuf, wfile>>

\* the second call of that process, for the document
RenderAgain ==
    /\ probe.op = "pure" /\ probe.stage = "earlier"
    /\ \E c \in PureCompanies, t \in PureTitles :
         probe' = [probe EXCEPT
            !.stage = "again", !.company_name = c, !.job_title = t,
            !.again = generate_pdf_resume_call(probe.earlier, probe.doc, c, t)]
    /\ UNCHANGED <<request, pc, env, log, hdrbuf, wfile>>

NextPure == RenderAlone \/ RenderEarlier \/ RenderAgain

SpecPure == InitPure /\ [][NextPure]_vars

(***************************************************************************)
(* C22                                                                     *)
(***************************************************************************)

PairRequests == {1, 2, 3}
Twin == [alone |-> 3, of |-> 1]

\* well-formed uploads, with or without a company name
PairRequestSpace ==
    {q \in RequestSpace :
        /\ q.method = "POST" /\ q.api_key /\ q.body_ok
        /\ q.content_type = CT_Multipart /\ q.resume
        /\ q.job_description = JStr(JobText)
        /\ q.company_name \in {NoField, JStr(CallerCompany)}
        /\ q.job_title = JStr(CallerTitle)}

\* the answers of the LLM drawn here
PairContents == {<<>>, D_Bare, D_Nulls, T_Fenced, T_NullContact}

InitPair ==
    /\ request \in {f \in [PairRequests -> PairRequestSpace] :
                      /\ f[Twin.alone] = f[Twin.of]
                      /\ \A r \in PairRequests : f[r].deploy = f[Twin.of].deploy}
    /\ pc = [r \in PairRequests |-> "dispatch"]
    /\ env = [r \in PairRequests |->
                [company_name |-> Unset, job_title |-> Unset,
                 job_description |-> Unset, resume_text |-> Unset,
                 response_text |-> Unset, tailored_data |-> Unset,
                 pdf_bytes |-> Unset, filename |-> Unset]]
    /\ log = [r \in PairRequests |-> <<>>]
    /\ hdrbuf = [r \in PairRequests |-> <<>>]
    /\ wfile = [r \in PairRequests |-> <<>>]
    /\ probe = Unset

\* the request handled alone runs to its end before the others start
Turn(r) == r = Twin.alone \/ pc[Twin.alone] = "done"

\* the answers in the log of r are among those drawn here
AnswersDrawn(r) ==
    \A i \in DOMAIN log[r] :
        log[r][i].op \in {"llm_details", "llm_tailor"} =>
            log[r][i].content \in PairContents

NextPair ==
    \E r \in PairRequests :
        /\ Turn(r)
        /\ \/ Dispatch(r)
           \/ CheckApiKey(r)
           \/ ReadBody(r)
           \/ CheckContentType(r)
           \/ ParseMultipart(r)
           \/ ValidateFields(r)
           \/ ExtractText(r)
           \/ ExtractJobDetailsCall(r)
           \/ ExtractJobDetailsReturn(r)
           \/ TailorResumeCall(r)
           \/ TailorResumeReturn(r)
           \/ GeneratePdf(r)
           \/ MakeFilename(r)
           \/ MakeResponse(r)
           \/ SendResponse(r)
           \/ SendContentDisposition(r)
           \/ SendContentLength(r)
           \/ SendKeywords(r)
           \/ SendEndHeaders(r)
           \/ WriteBody(r)
        /\ AnswersDrawn(r)'

SpecPair == InitPair /\ [][NextPair]_vars

(***************************************************************************)
(* C23                                                                     *)
(***************************************************************************)

\* what the collaborators answered to r: the extraction and the LLM calls
Answers(r) ==
    LET reply(e) == [op |-> e.op, raised |-> e.raised,
                     text |-> IF e.op = "extract_text" THEN e.text ELSE e.content]
        calls == SelectSeq(log[r], LAMBDA e :
                    e.op \in {"extract_text", "llm_details", "llm_tailor"})
    IN [i \in DOMAIN calls |-> reply(calls[i])]

\* status, headers (filename, keywords metadata) and body (rendered
\* elements or error), and the resolved company name and job title
Outcome(r) ==
    [response |-> Response(r), buffered |-> hdrbuf[r],
     company_name |-> env[r].company_name, job_title |-> env[r].job_title,
     filename |-> env[r].filename]

\* the step left every other request's state as it was
StepOfOne ==
    \E r \in DOMAIN pc :
        \A q \in DOMAIN pc \ {r} :
            /\ pc'[q] = pc[q] /\ env'[q] = env[q] /\ log'[q] = log[q]
            /\ hdrbuf'[q] = hdrbuf[q] /\ wfile'[q] = wfile[q]

\* the finished request has the outcome of the same request handled alone
SameAsAlone ==
    (/\ pc[Twin.of] = "done" /\ pc[Twin.alone] = "done"
     /\ Answers(Twin.of) = Answers(Twin.alone))
        => Outcome(Twin.of) = Outcome(Twin.alone)

\* C23: under every interleaving of the steps of two requests, a request
\* given the same answers by its collaborators ends with the outcome
\* (status, resolved company name and job title, rendered elements,
\* filename, keywords metadata) it has when handled alone, and every step
\* changes the state of one request only.
C23_RequestsIndependent == [](SameAsAlone) /\ [][StepOfOne]_vars

\* a request without a company name finished with a PDF while the other,
\* with a company name of its own, was in the middle of its steps
C23_Witness ==
    /\ pc[Twin.of] = "done" /\ pc[Twin.alone] = "done"
    /\ Answers(Twin.of) = Answers(Twin.alone)
    /\ IsSuccessResponse(Response(Twin.of))
    /\ ~Supplied(Twin.of, "company_name")
    /\ \E q \in DOMAIN pc \ {Twin.of, Twin.alone} :
          /\ Supplied(q, "company_name")
          /\ pc[q] \notin {"dispatch", "done"}
          /\ log[q] # <<>>

(***************************************************************************)
(* C24                                                                     *)
(***************************************************************************)

\* every character of the text replaced once, all at the same time
RECURSIVE EscapedOnce(_)
EscapedOnce(s) ==
    IF s = <<>> THEN <<>>
    ELSE (CASE Head(s) = "&" -> <<"&", "a", "m", "p", ";">>
            [] Head(s) = "<" -> <<"&", "l", "t", ";">>
            [] Head(s) = ">" -> <<"&", "g", "t", ";">>
            [] OTHER -> <<Head(s)>>) \o EscapedOnce(Tail(s))

\* C24: the text handed to the bold replacement is the input with every &
\* replaced by &amp;, every < by &lt; and every > by &gt;, each character
\* once, as one simultaneous replacement gives: a < never becomes &amp;lt;.
C24_EscapedExactlyOnce ==
    (probe.op = "normalize" /\ probe.stage = "normalized" /\ IsStr(probe.text)) =>
        /\ probe.escaped = EscapedOnce(probe.text.s)
        /\ ~Contains(probe.escaped, <<"&", "a", "m", "p", ";", "l", "t", ";">>)

\* a text with an & and a < has been normalized
C24_Witness ==
    /\ probe.op = "normalize" /\ probe.stage = "normalized"
    /\ IsStr(probe.text)
    /\ Contains(probe.text.s, <<"&", "<">>)
    /\ Contains(probe.escaped, <<"&", "a", "m", "p", ";", "&", "l", "t", ";">>)

(***************************************************************************)
(* C25                                                                     *)
(***************************************************************************)

\* the position of the nearest ** at or after position i, whatever
\* characters come before it; 0 when there is none
RECURSIVE NextStars(_, _)
NextStars(s, i) ==
    IF i + 1 > Len(s) THEN 0
    ELSE IF MatchAt(s, Stars, i) THEN i
    ELSE NextStars(s, i + 1)

\* every leftmost non-overlapping **content** replaced by <b>content</b>,
\* the content being the shortest possible and of any characters
RECURSIVE BoldEvery(_, _)
BoldEvery(s, i) ==
    IF i > Len(s) THEN <<>>
    ELSE IF MatchAt(s, Stars, i) /\ NextStars(s, i + 2) # 0
    THEN LET j == NextStars(s, i + 2) IN
         <<"<", "b", ">">> \o SubSeq(s, i + 2, j - 1) \o <<"<", "/", "b", ">">>
             \o BoldEvery(s, j + 2)
    ELSE <<s[i]>> \o BoldEvery(s, i + 1)

\* C25: the normalized text is the escaped input with every leftmost,
\* non-overlapping, shortest **content** replaced by <b>content</b>, for
\* every content: the empty one and one that spans a line break included.
C25_EveryBoldPairReplaced ==
    (probe.op = "normalize" /\ probe.stage = "normalized" /\ IsStr(probe.text)) =>
        probe.out.s = BoldEvery(EscapedOnce(probe.text.s), 1)

(***************************************************************************)
(* The Markup Normalizer on texts made of ** markers, letters, line breaks *)
(* and a character that is escaped.                                        *)
(***************************************************************************)

\* the most pieces a text is made of
MaxPieces == 5

Pieces == {Stars, <<"a">>, <<"\n">>, <<"<">>}

RECURSIVE Flatten(_)
Flatten(ps) == IF ps = <<>> THEN <<>> ELSE Head(ps) \o Flatten(Tail(ps))

InitMarkers ==
    /\ request = <<>> /\ pc = <<>> /\ env = <<>>
    /\ log = <<>> /\ hdrbuf = <<>> /\ wfile = <<>>
    /\ \E n \in 0..MaxPieces :
         \E ps \in [1..n -> Pieces] :
            probe = [op |-> "normalize", stage |-> "text",
                     text |-> JStr(Flatten(ps)),
                     escaped |-> <<>>, out |-> [exc |-> "none", s |-> <<>>]]

SpecMarkers == InitMarkers /\ [][NextNormalize]_vars

(***************************************************************************)
(* C26                                                                     *)
(***************************************************************************)

\* the number of ** markers of a text, counted from the left
RECURSIVE MarkerCount(_, _)
MarkerCount(s, i) ==
    IF i + 1 > Len(s) THEN 0
    ELSE IF MatchAt(s, Stars, i) THEN 1 + MarkerCount(s, i + 2)
    ELSE MarkerCount(s, i + 1)

\* the positions where the text p starts in s
Starts(s, p) == {i \in 1..Len(s) : MatchAt(s, p, i)}

\* every <b> is closed by a </b> before the next <b>, and no </b> stands
\* without its <b>
TagsMatched(s) ==
    LET opens == Starts(s, <<"<", "b", ">">>)
        closes == Starts(s, <<"<", "/", "b", ">">>)
    IN /\ Cardinality(opens) = Cardinality(closes)
       /\ \A i \in opens :
             \E j \in closes :
                /\ i < j
                /\ \A k \in opens \cup closes : ~(i < k /\ k < j)

\* the normalized text of a text with a single marker has no bold tag, and
\* the tags of every normalized text are matched
SingleAndMatched ==
    (probe.op = "normalize" /\ probe.stage = "normalized") =>
        /\ MarkerCount(probe.text.s, 1) = 1
              => ~Contains(probe.out.s, <<"<", "b", ">">>)
        /\ TagsMatched(probe.out.s)

\* C26: a text with an odd number of ** markers is normalized by pairing
\* the markers from the left and leaving the last one, unpaired, as it
\* is; a text with a single marker has no bold tag; and in every
\* normalized text each <b> has its </b>.
C26_OddMarkersPairFromLeft ==
    (probe.op = "normalize" /\ probe.stage = "normalized") =>
        /\ MarkerCount(probe.text.s, 1) % 2 = 1
              => probe.out.s = BoldEvery(EscapedOnce(probe.text.s), 1)
        /\ MarkerCount(probe.text.s, 1) = 1
              => ~Contains(probe.out.s, <<"<", "b", ">">>)
        /\ TagsMatched(probe.out.s)

(***************************************************************************)
(* The renderer on documents that differ in their contact block            *)
(***************************************************************************)

S_UrlInner ==
    <<"h", "t", "t", "p", "s", ":", "/", "/", "x", ".", "i", "o", "/", "?",
      "u", "=", "h", "t", "t", "p", ":", "/", "/", "y">>

S_UrlHttp ==
    <<"h", "t", "t", "p", ":", "/", "/", "g", ".", "i", "o">>

S_Phone ==
    <<"5", "5", "5">>

\* the contact blocks drawn: every field a text, empty, null or left out
ContactBlocks ==
    {MkObj(<<Pair(Key.email, em), Pair(Key.phone, ph), Pair(Key.linkedin, li),
             Pair(Key.github, gh), Pair(Key.location, lo)>>) :
        em \in {NoField, JStr(<<>>), JStr(S_Mail)},
        ph \in {NoField, JNull, JStr(S_Phone)},
        li \in {NoField, JStr(<<>>), JStr(S_Url), JStr(S_UrlInner)},
        gh \in {NoField, JNull, JStr(S_UrlHttp)},
        lo \in {NoField, JStr(<<>>), JStr(S_Plain)}}

InitContact ==
    /\ request = <<>> /\ pc = <<>> /\ env = <<>>
    /\ log = <<>> /\ hdrbuf = <<>> /\ wfile = <<>>
    /\ \E c \in ContactBlocks :
         LET d == MkObj(<<Pair(K_name, JStr(S_Plain)), Pair(K_contact, c)>>) IN
         probe = [op |-> "render", stage |-> "document", kind |-> "contact",
                  doc |-> d, defaulted |-> d, copy |-> "none",
                  result |-> Done(<<>>)]

SpecContact == InitContact /\ [][NextRender]_vars

(***************************************************************************)
(* C27                                                                     *)
(***************************************************************************)

\* the url without its leading http:// or https://
WithoutProtocol(url) ==
    LET https == <<"h", "t", "t", "p", "s", ":", "/", "/">>
        http == <<"h", "t", "t", "p", ":", "/", "/">>
    IN IF StartsWith(url, https) THEN SubSeq(url, Len(https) + 1, Len(url))
       ELSE IF StartsWith(url, http) THEN SubSeq(url, Len(http) + 1, Len(url))
       ELSE url

\* the pieces the contact line is to list for a contact block, in order
ContactPieces(contact) ==
    LET has(k) == Truthy(DictGet(contact, k, JNull))
        val(k) == DictGet(contact, k, JNull).s
        link(k) == HrefOpen \o val(k) \o HrefMid \o WithoutProtocol(val(k))
                       \o HrefClose
    IN (IF has(Key.email)
        THEN <<MailtoOpen \o val(Key.email) \o HrefMid \o val(Key.email)
                   \o HrefClose>>
        ELSE <<>>)
       \o (IF has(Key.phone) THEN <<val(Key.phone)>> ELSE <<>>)
       \o (IF has(Key.linkedin) THEN <<link(Key.linkedin)>> ELSE <<>>)
       \o (IF has(Key.github) THEN <<link(Key.github)>> ELSE <<>>)
       \o (IF has(Key.location) THEN <<val(Key.location)>> ELSE <<>>)

\* the pieces with one ' | ' between each two and none at the ends
RECURSIVE BarJoined(_)
BarJoined(ps) ==
    IF ps = <<>> THEN <<>>
    ELSE IF Len(ps) = 1 THEN ps[1]
    ELSE ps[1] \o <<" ", "|", " ">> \o BarJoined(Tail(ps))

\* the texts of the contact lines of the rendered document, in order
ContactLines ==
    LET es == SelectSeq(probe.result.elements, LAMBDA el : el.style = "contact")
    IN [i \in DOMAIN es |-> es[i].text]

\* C27: the contact line lists the non-empty fields of the contact block
\* in the order email, phone, linkedin, github, location, one ' | '
\* between each two and none at the ends; there is no contact line when
\* no field is present; the linkedin and github links show the URL
\* without its leading http:// or https:// only, and point to the whole
\* URL.
C27_ContactLine ==
    (probe.op = "render" /\ probe.kind = "contact" /\ probe.stage = "rendered") =>
        LET pieces == ContactPieces(DictGet(probe.doc, K_contact, JObj(<<>>))) IN
        /\ probe.result.exc = "none"
        /\ ContactLines = IF pieces = <<>> THEN <<>> ELSE <<BarJoined(pieces)>>

\* the same for the contact blocks whose URLs hold a protocol at their
\* start only
ContactLinePlainUrls ==
    LET url == DictGet(DictGet(probe.doc, K_contact, JObj(<<>>)), Key.linkedin, JNull) IN
    url # JStr(S_UrlInner) => C27_ContactLine

(***************************************************************************)
(* C28                                                                     *)
(***************************************************************************)

\* the styles of the elements written after the heading of this title and
\* its rule, up to the next heading or the end
SectionShape(title) ==
    LET es == probe.result.elements
        at == CHOOSE i \in HeadingPositions : es[i].text = title
        later == {j \in HeadingPositions : j > at}
        last == IF later = {} THEN Len(es)
                ELSE (CHOOSE j \in later : \A k \in later : j <= k) - 1
    IN [i \in 1..(last - at - 1) |-> es[at + 1 + i].style]

\* the styles a project entry is to be written with: the name and location
\* row, the technologies and duration row when one of them is there, the
\* description line when there is a description, a line per bullet, a
\* spacer
ProjectShape(proj) ==
    LET has(k) == Truthy(DictGet(proj, k, JNull))
        bullets == DictGet(proj, Key.bullets, JArr(<<>>))
    IN <<"row">>
       \o (IF has(Key.technologies) \/ has(Key.duration) THEN <<"row">> ELSE <<>>)
       \o (IF has(Key.description) THEN <<"normal">> ELSE <<>>)
       \o [i \in 1..Len(bullets.xs) |-> "bullet"]
       \o <<"space">>

RECURSIVE ProjectShapes(_)
ProjectShapes(projs) ==
    IF projs = <<>> THEN <<>>
    ELSE ProjectShape(Head(projs)) \o ProjectShapes(Tail(projs))

\* C28: whichever copy of the renderer wrote it, the PROJECTS section of
\* a document holds for each project, in order, the name and location
\* row, the technologies and duration row if and only if one of the two
\* is non-empty, the description line if and only if the description is
\* non-empty, one line per bullet and a spacer.
C28_ProjectEntryLines ==
    (Rendered /\ probe.kind = "valid" /\ ListLen(Key.projects) > 0) =>
        /\ HasHeading(H_PROJECTS)
        /\ SectionShape(H_PROJECTS) =
              ProjectShapes(DictGet(probe.doc, Key.projects, JArr(<<>>)).xs)

\* the same of the copy of pdf_generator.py alone
ProjectEntryLinesStandalone ==
    probe.copy = "pdf_generator" => C28_ProjectEntryLines

(***************************************************************************)
(* C29                                                                     *)
(***************************************************************************)

\* C29: the copies of generate_pdf_resume agree on every document: what
\* the copy of pdf_generator.py returns for a document is what the copy
\* of api/generate.py (the same text as the netlify copy) returns for it.
C29_CopiesEquivalent ==
    (probe.op = "render" /\ probe.stage = "rendered"
        /\ probe.copy = "pdf_generator") =>
            probe.result = generate_pdf_resume(probe.doc)

\* the same for the documents without a project
CopiesEquivalentWithoutProjects ==
    ListLen(Key.projects) = 0 => C29_CopiesEquivalent

(***************************************************************************)
(* C30                                                                     *)
(***************************************************************************)

\* the five checks of a request in the order of the handler, each with
\* whether it is passed and the message of its error
Checks(r) ==
    <<[ok |-> request[r].api_key,
       text |-> "OPENROUTER_API_KEY not configured"],
      [ok |-> Contains(request[r].content_type,
                       <<"m", "u", "l", "t", "i", "p", "a", "r", "t", "/",
                         "f", "o", "r", "m", "-", "d", "a", "t", "a">>),
       text |-> "Expected multipart/form-data"],
      [ok |-> request[r].resume,
       text |-> "Resume file is required"],
      [ok |-> Supplied(r, "job_description"),
       text |-> "Job description is required"],
      [ok |-> \E i \in Ops(r, "extract_text") :
                 ~log[r][i].raised /\ log[r][i].text # <<>>,
       text |-> "Could not extract text from resume PDF"]>>

\* the positions of the LLM calls in the log of r
LLMCalls(r) == Ops(r, "llm_details") \cup Ops(r, "llm_tailor")

\* C30: an LLM call of a request is made only after the API key was found,
\* the content type held multipart/form-data, a resume file and a
\* non-empty job description were present and the text extracted from
\* the resume was non-empty; a request answered with the error of one of
\* these checks has passed every check before it, failed that one and
\* made no LLM call.
C30_ChecksBeforeLLM ==
    \A r \in DOMAIN pc :
        LET cs == Checks(r) IN
        /\ LLMCalls(r) # {} =>
              /\ \A k \in 1..Len(cs) : cs[k].ok
              /\ \A i \in LLMCalls(r) :
                    \E j \in Ops(r, "extract_text") : j < i
        /\ (request[r].method = "POST" /\ pc[r] = "done" /\ Failed(r)) =>
              LET w == Response(r)
                  body == w[Len(w)]
              IN \A k \in 1..Len(cs) :
                    (body.error.detail = "" /\ body.error.text = cs[k].text) =>
                        /\ ~cs[k].ok
                        /\ \A j \in 1..(k - 1) : cs[j].ok
                        /\ LLMCalls(r) = {}
        /\ (request[r].method = "POST" /\ pc[r] = "done"
              /\ \E k \in 1..Len(cs) : ~cs[k].ok) =>
                 /\ Failed(r)
                 /\ LLMCalls(r) = {}

\* the tailoring call of a request has been made
C30_Witness ==
    \E r \in DOMAIN pc :
        /\ request[r].method = "POST"
        /\ Ops(r, "llm_tailor") # {}
        /\ \A k \in 1..5 : Checks(r)[k].ok

====
